---------------------------- MODULE Spec2Model ----------------------------
(***************************************************************************)
(* The request pipeline of gofiberobservability                            *)
(*   RecoveryMiddleware -> TracingMiddleware -> LoggingMiddleware -> route *)
(* with the cache-aside read path of GetUser, CreateUser, the health       *)
(* report, the pagination of ListUsers, and main's startup and teardown    *)
(* of the subsystems, as state machines.                                   *)
(* Every request runs as its own task; the stages of one request run       *)
(* sequentially, each stage wrapping the next (c.Next()).                  *)
(***************************************************************************)
EXTENDS Integers, Sequences, FiniteSets, TLC

\* ------------------------------------------------------------------ bounds
NumReq == 2
NumIds == 1
TickMinutes == 5
NumCrudReq == 3
NumLifeReq == 1

Reqs == 1..NumReq
UserIds == 1..NumIds
SpanIds == 1..NumReq
CrudReqs == 1..NumCrudReq
LifeReqs == 1..NumLifeReq

\* ------------------------------------------------------- program constants
StatusOK == 200
StatusCreated == 201
StatusBadRequest == 400
StatusNotFound == 404
StatusInternalServerError == 500
StatusServiceUnavailable == 503
CacheTTL == 10

\* ------------------------------------------------------------------ values
Routes == {"root", "debugError", "apiError", "apiPanic", "getUser"}

NoErr == [isErr |-> FALSE, fiber |-> FALSE, code |-> 0, msg |-> ""]
NewError(code, msg) == [isErr |-> TRUE, fiber |-> TRUE, code |-> code, msg |-> msg]

NoPanic == ""
PanicMessage == "This is a simulated panic!"

NoUser == [id |-> 0, name |-> "", email |-> "", created_at |-> 0]
\* the row of a user created before the service started
SeedUser(id) == [id |-> id, name |-> "Alice", email |-> "a@x.com", created_at |-> 1]

\* created_at TIMESTAMPTZ NOT NULL DEFAULT NOW(): the clock's reading at the insert
Now == 1

EmptyBody == [kind |-> "empty", error |-> "", user |-> NoUser]
ErrorBody(msg) == [kind |-> "json", error |-> msg, user |-> NoUser]
UserBody(u) == [kind |-> "json", error |-> "", user |-> u]
CreatedBody(u) == [kind |-> "created", error |-> "", user |-> u]
HelloBody == [kind |-> "hello", error |-> "", user |-> NoUser]
NewResponse == [status |-> StatusOK, body |-> EmptyBody]

\* json.Marshal(user) / json.Unmarshal(val, &user): the cached value is the
\* token sequence of the JSON object; anything else does not deserialize.
Marshal(u) ==
  <<"id", u.id, "name", u.name, "email", u.email, "created_at", u.created_at>>
Garbage == <<"not-json">>

\* faulty variant: the User struct's created_at field is not read back
UnmarshalDropsCreatedAt(val) ==
  IF /\ Len(val) = 8
     /\ val[1] = "id" /\ val[3] = "name" /\ val[5] = "email" /\ val[7] = "created_at"
  THEN [ok |-> TRUE,
        user |-> [id |-> val[2], name |-> val[4], email |-> val[6], created_at |-> 0]]
  ELSE [ok |-> FALSE, user |-> NoUser]

Unmarshal(val) ==
  IF /\ Len(val) = 8
     /\ val[1] = "id" /\ val[3] = "name" /\ val[5] = "email" /\ val[7] = "created_at"
  THEN [ok |-> TRUE,
        user |-> [id |-> val[2], name |-> val[4], email |-> val[6], created_at |-> val[8]]]
  ELSE [ok |-> FALSE, user |-> NoUser]

\* cacheKey := fmt.Sprintf("user:%s", id)
CacheKey(id) == <<"user", id>>
CacheKeys == {CacheKey(id) : id \in UserIds}
NoEntry == [val |-> <<>>, ttl |-> 0]
\* Redis is shared: at startup a key may hold what another client wrote there,
\* with no expiry (ttl -1)
ForeignEntry == [val |-> Garbage, ttl |-> -1]

\* one telemetry call made on behalf of a request
Ev(op, stage, span, key, val, num) ==
  [op |-> op, stage |-> stage, span |-> span, key |-> key, val |-> val, num |-> num]

NewSpan == [owner |-> 0, sampled |-> FALSE, starts |-> 0, ends |-> 0,
            status |-> "unset", statusMsg |-> "", attrs |-> {}, errors |-> {}]

NewLocal == [cacheResult |-> "none", val |-> <<>>, user |-> NoUser,
             dbResult |-> "none", setResult |-> "none"]

NewReq == [route |-> "root", id |-> 0, afterPanic |-> FALSE]

\* the subsystem handles the process holds as package-level variables
Subsystems == {"logger", "tracer", "meter", "pool", "cache"}

\* main's init steps, in program order
InitOrder == <<"logger", "tracer", "metrics", "database", "redis", "migrations">>

\* the handle an init step sets, "" when it sets none
HandleOf(step) ==
  CASE step = "logger" -> "logger"
    [] step = "tracer" -> "tracer"
    [] step = "metrics" -> "meter"
    [] step = "database" -> "pool"
    [] step = "redis" -> "cache"
    [] OTHER -> ""

\* the calls main defers around an init step
DeferredOf(step) ==
  CASE step = "logger" -> <<"logger.Shutdown">>
    [] step = "tracer" -> <<"tracer.Shutdown">>
    [] step = "metrics" -> <<"metrics.Shutdown">>
    [] step = "database" -> <<"dbCancel", "database.Close">>
    [] step = "redis" -> <<"database.CloseRedis">>
    [] OTHER -> <<>>

\* one entry of main's history
StepEv(step, what) == [step |-> step, what |-> what]

\* main's history and deferred calls at the moment the server starts, when
\* every init step succeeded
RECURSIVE StartupSteps(_, _)
StartupSteps(i, te) ==
  IF i > Len(InitOrder) THEN <<>>
  ELSE <<StepEv(InitOrder[i], IF InitOrder[i] = "tracer" /\ ~te THEN "skipped" ELSE "ok")>>
       \o StartupSteps(i + 1, te)

RECURSIVE StartupDeferred(_)
StartupDeferred(i) ==
  IF i > Len(InitOrder) THEN <<"cancel">>
  ELSE DeferredOf(InitOrder[i]) \o StartupDeferred(i + 1)

HandlesNone == [h \in Subsystems |-> "none"]
HandlesUp(te) == [h \in Subsystems |-> IF h = "tracer" /\ ~te THEN "off" ELSE "up"]

\* the inputs of LoggingMiddleware's status computation
NewArg == [status |-> StatusOK, e |-> NoErr]

VARIABLES
  tracingEnabled,  \* cfg.TracingEnabled
  sampleAll,       \* cfg.TraceSampleRate: 1.0 (every trace is sampled) or 0.0 (none)
  serverAlive,     \* the process has not crashed
  pc,              \* each request's position in the pipeline
  req,             \* each request's route, id parameter
  resp,            \* c.Response(): status code and body
  err,             \* the error value returned by the stage that last returned
  panic,           \* the value of a panic unwinding the request's stack
  ctx,             \* c.Context(): the id of the span stored in it, 0 for none
  events,          \* the log, metric and span calls made for the request, in order
  local,           \* GetUser's local variables
  errorHandlerRuns,\* how often the application ErrorHandler ran for the request
  spans,           \* the server spans the tracer has started
  nextSpan,        \* the tracer's next span id
  cache,           \* Redis: key -> entry
  store,           \* PostgreSQL users table: id -> row
  storeQueries,    \* GetUser's SELECTs, per id
  evictions,       \* cache entries that expired, per id
  faults,          \* cache and store failures GetUser met, per id
  overlap,         \* two GetUser requests of the id were in flight together
  nextId,          \* the next value of the users table's SERIAL id
  mainPc,          \* main's position: the init step, serving, or the teardown step
  handle,          \* each subsystem handle: none, off, up, closing or closed
  deferred,        \* main's stack of deferred calls
  steps,           \* what main has done so far: its steps and how each ended
  exitCode,        \* the exit status of the process, -1 while it runs
  listening,       \* app.Listen accepts connections
  hung,            \* the call main is in does not return by itself
  fnArg,           \* the response status and error LoggingMiddleware computes a status from
  fnResult         \* its result, 0 before it is applied

mainVars == <<mainPc, handle, deferred, steps, exitCode, listening, hung>>
fnVars == <<fnArg, fnResult>>
extVars == <<nextId, mainVars, fnVars>>
reqVars == <<pc, req, resp, err, panic, ctx, events, local, errorHandlerRuns>>
spanVars == <<spans, nextSpan>>
dataVars == <<cache, store>>
histVars == <<storeQueries, evictions, faults, overlap>>
vars == <<tracingEnabled, sampleAll, serverAlive, reqVars, spanVars, dataVars, histVars, extVars>>

\* the process after a startup in which every step succeeded: it is serving
InitServing ==
  /\ mainPc = "serving"
  /\ handle = HandlesUp(tracingEnabled)
  /\ deferred = StartupDeferred(1)
  /\ steps = StartupSteps(1, tracingEnabled)
  /\ exitCode = -1
  /\ listening = TRUE
  /\ hung = FALSE

InitFn ==
  /\ fnArg = NewArg
  /\ fnResult = 0

Init ==
  /\ tracingEnabled \in BOOLEAN
  /\ sampleAll \in BOOLEAN
  /\ tracingEnabled \/ ~sampleAll
  /\ serverAlive = TRUE
  /\ pc = [r \in Reqs |-> "idle"]
  /\ req = [r \in Reqs |-> NewReq]
  /\ resp = [r \in Reqs |-> NewResponse]
  /\ err = [r \in Reqs |-> NoErr]
  /\ panic = [r \in Reqs |-> NoPanic]
  /\ ctx = [r \in Reqs |-> 0]
  /\ events = [r \in Reqs |-> <<>>]
  /\ local = [r \in Reqs |-> NewLocal]
  /\ errorHandlerRuns = [r \in Reqs |-> 0]
  /\ spans = [s \in SpanIds |-> NewSpan]
  /\ nextSpan = 1
  /\ cache \in [CacheKeys -> {NoEntry, ForeignEntry}]
  /\ store \in {st \in [UserIds -> {NoUser} \cup {SeedUser(id) : id \in UserIds}] :
                  \A id \in UserIds : st[id] \in {NoUser, SeedUser(id)}}
  /\ storeQueries = [id \in UserIds |-> 0]
  /\ evictions = [id \in UserIds |-> 0]
  /\ faults = [id \in UserIds |-> 0]
  /\ overlap = [id \in UserIds |-> FALSE]
  /\ nextId = NumIds + 1
  /\ InitServing
  /\ InitFn


\* ----------------------------------------------------------------- helpers
InFlight(r) == pc[r] \notin {"idle", "done", "crashed"}
Panicking(r) == panic[r] # NoPanic

\* faulty variant: the span is kept in one place for the whole process, where
\* the latest request put its own
SpanFromContextShared(r) == nextSpan - 1

\* trace.SpanFromContext(c.Context())
SpanFromContext(r) == ctx[r]

\* span.IsRecording(): a sampled span that has not ended; the no-op span
\* found when the context holds none never records.
IsRecording(s) == s # 0 /\ spans[s].sampled /\ spans[s].ends = 0

\* logger.GetLoggerWithTraceContext(ctx): the span id the logger's entries carry
LoggerTrace(r) == SpanFromContext(r)

LogEv(stage, trace, msg, level) == Ev("log", stage, trace, msg, level, 0)
MetricEv(name, status) == Ev("metric", "logging", 0, name, "", status)

\* what one span call does to the span: the SDK drops a write to a span that
\* is not recording (not sampled, or ended)
ApplyEv(sp, e) ==
  LET rec == sp.sampled /\ sp.ends = 0
  IN CASE e.op = "setStatus" /\ rec -> [sp EXCEPT !.status = e.key, !.statusMsg = e.val]
       [] e.op = "recordError" /\ rec -> [sp EXCEPT !.errors = @ \cup {e.val}]
       [] e.op = "setAttr" /\ rec -> [sp EXCEPT !.attrs = @ \cup {<<e.key, e.val>>}]
       [] e.op = "spanEnd" -> [sp EXCEPT !.ends = @ + 1]
       [] OTHER -> sp

RECURSIVE ApplyAll(_, _)
ApplyAll(sp, evs) ==
  IF evs = <<>> THEN sp ELSE ApplyAll(ApplyEv(sp, Head(evs)), Tail(evs))

\* ---------------------------------------------------------------- requests
\* the server accepts a request and hands it to the first stage
Accept(r) ==
  /\ serverAlive
  /\ pc[r] = "idle"
  /\ \E route \in Routes, id \in UserIds \cup {0} :
       /\ (route = "getUser") <=> (id # 0)
       /\ req' = [req EXCEPT ![r] =
            [route |-> route, id |-> id,
             afterPanic |-> \E q \in Reqs : req[q].route = "apiPanic" /\ pc[q] = "done"]]
       /\ overlap' = IF route = "getUser" /\
                        (\E q \in Reqs \ {r} :
                            InFlight(q) /\ req[q].route = "getUser" /\ req[q].id = id)
                     THEN [overlap EXCEPT ![id] = TRUE]
                     ELSE overlap
  /\ pc' = [pc EXCEPT ![r] = "recovery"]
  /\ UNCHANGED <<extVars, tracingEnabled, sampleAll, serverAlive, resp, err, panic, ctx, events, local,
                 errorHandlerRuns, spanVars, dataVars,
                 storeQueries, evictions, faults>>

\* faulty variant: the tracing stage is installed whatever the configuration says
AfterRecoveryAlwaysTraces == "tracing"

\* app.Use order: Recovery, Tracing (when enabled), Logging
AfterRecovery == IF tracingEnabled THEN "tracing" ELSE "logging"
BeforeRecoveryExit == IF tracingEnabled THEN "tracingExit" ELSE "recoveryExit"

\* RecoveryMiddleware up to c.Next(): the deferred function is registered
RecoveryEnter(r) ==
  /\ pc[r] = "recovery"
  /\ pc' = [pc EXCEPT ![r] = AfterRecovery]
  /\ UNCHANGED <<extVars, tracingEnabled, sampleAll, serverAlive, req, resp, err, panic, ctx, events, local,
                 errorHandlerRuns, spanVars, dataVars, histVars>>

BaselineAttrs ==
  {<<k, "">> : k \in {"service.name", "http.method", "http.url", "http.target",
                      "http.client_ip", "http.user_agent"}}

\* TracingMiddleware up to c.Next(): tracer.Start, defer span.End(), c.SetContext
TracingEnter(r) ==
  /\ pc[r] = "tracing"
  /\ spans' = [spans EXCEPT ![nextSpan] =
                [NewSpan EXCEPT !.owner = r, !.sampled = sampleAll, !.starts = 1,
                                !.attrs = IF sampleAll THEN BaselineAttrs ELSE {}]]
  /\ nextSpan' = nextSpan + 1
  /\ ctx' = [ctx EXCEPT ![r] = nextSpan]
  /\ events' = [events EXCEPT ![r] = Append(@, Ev("spanStart", "tracing", nextSpan, "server", "", 0))]
  /\ pc' = [pc EXCEPT ![r] = "logging"]
  /\ UNCHANGED <<extVars, tracingEnabled, sampleAll, serverAlive, req, resp, err, panic, local,
                 errorHandlerRuns, dataVars, histVars>>

\* LoggingMiddleware up to c.Next()
LoggingEnter(r) ==
  /\ pc[r] = "logging"
  /\ events' = [events EXCEPT ![r] =
                  Append(@, LogEv("logging", LoggerTrace(r), "Incoming request", "info"))]
  /\ pc' = [pc EXCEPT ![r] = "handler"]
  /\ UNCHANGED <<extVars, tracingEnabled, sampleAll, serverAlive, req, resp, err, panic, ctx, local,
                 errorHandlerRuns, spanVars, dataVars, histVars>>

\* ---------------------------------------------------------- route handlers
\* app.Get("/", ...): c.JSON of the greeting
HandlerRoot(r) ==
  /\ pc[r] = "handler" /\ req[r].route = "root"
  /\ resp' = [resp EXCEPT ![r] = [status |-> StatusOK, body |-> HelloBody]]
  /\ err' = [err EXCEPT ![r] = NoErr]
  /\ pc' = [pc EXCEPT ![r] = "loggingExit"]
  /\ UNCHANGED <<extVars, tracingEnabled, sampleAll, serverAlive, req, panic, ctx, events, local,
                 errorHandlerRuns, spanVars, dataVars, histVars>>

\* app.Get("/debug/error", ...)
HandlerDebugError(r) ==
  /\ pc[r] = "handler" /\ req[r].route = "debugError"
  /\ err' = [err EXCEPT ![r] = NewError(StatusBadRequest, "This is a deliberate error")]
  /\ pc' = [pc EXCEPT ![r] = "loggingExit"]
  /\ UNCHANGED <<extVars, tracingEnabled, sampleAll, serverAlive, req, resp, panic, ctx, events, local,
                 errorHandlerRuns, spanVars, dataVars, histVars>>

\* app.Get("/api/error", ...)
HandlerApiError(r) ==
  /\ pc[r] = "handler" /\ req[r].route = "apiError"
  /\ events' = [events EXCEPT ![r] =
       Append(@, LogEv("handler", LoggerTrace(r), "Simulated error endpoint called", "error"))]
  /\ err' = [err EXCEPT ![r] =
       NewError(StatusInternalServerError, "This is a simulated error")]
  /\ pc' = [pc EXCEPT ![r] = "loggingExit"]
  /\ UNCHANGED <<extVars, tracingEnabled, sampleAll, serverAlive, req, resp, panic, ctx, local,
                 errorHandlerRuns, spanVars, dataVars, histVars>>

\* app.Get("/api/panic", ...): panic("This is a simulated panic!")
HandlerApiPanic(r) ==
  /\ pc[r] = "handler" /\ req[r].route = "apiPanic"
  /\ panic' = [panic EXCEPT ![r] = PanicMessage]
  /\ pc' = [pc EXCEPT ![r] = "loggingExit"]
  /\ UNCHANGED <<extVars, tracingEnabled, sampleAll, serverAlive, req, resp, err, ctx, events, local,
                 errorHandlerRuns, spanVars, dataVars, histVars>>

\* ----------------------------------------------------------------- GetUser
\* what database.GetRedis().Get(ctx, cacheKey).Result() and the json.Unmarshal
\* of its value come to: "error" (the lookup failed), "miss" (redis.Nil),
\* "corrupt" (a value that does not deserialize) or "hit"
CacheLookup(entry, reachable) ==
  IF ~reachable THEN "error"
  ELSE IF entry = NoEntry THEN "miss"
  ELSE IF Unmarshal(entry.val).ok THEN "hit"
  ELSE "corrupt"

GetUserSpanStart(r) ==
  <<Ev("spanStart", "handler", 0, "handler.get-user", "", 0),
    Ev("setAttr", "handler", 0, "user.id", "", req[r].id)>>

\* the events of the cache-hit branch
CacheHitEvents(r) ==
  <<LogEv("handler", LoggerTrace(r), "Cache hit", "info"),
    Ev("setAttr", "handler", 0, "cache.hit", "true", 0),
    Ev("spanEnd", "handler", 0, "handler.get-user", "", 0)>>

\* the events between a failed lookup and the store query
CacheMissEvents(r, result) ==
  (IF result = "corrupt"
   THEN <<LogEv("handler", LoggerTrace(r), "Failed to unmarshal cached user", "warn")>>
   ELSE <<>>)
  \o <<LogEv("handler", LoggerTrace(r), "Cache miss", "info"),
       Ev("setAttr", "handler", 0, "cache.hit", "false", 0)>>

\* faulty variant: the hit branch lacks its return and falls through to the store
AfterLookupFallsThrough(result) == "query"

\* faulty variant: a failed lookup is returned to the caller
AfterLookupPropagates(result) ==
  IF result = "hit" THEN "respond" ELSE IF result = "miss" THEN "query" ELSE "fail"

\* where GetUser goes after the lookup: it answers from the cache on a hit and
\* reads the store on everything else; no outcome makes it fail
AfterLookup(result) == IF result = "hit" THEN "respond" ELSE "query"

\* GetUser, step 1: try Redis
GetUserCacheGet(r) ==
  /\ pc[r] = "handler" /\ req[r].route = "getUser"
  /\ \E reachable \in BOOLEAN :
       LET id == req[r].id
           entry == cache[CacheKey(id)]
           result == CacheLookup(entry, reachable)
       IN /\ local' = [local EXCEPT ![r].cacheResult = result,
                                    ![r].val = IF reachable THEN entry.val ELSE <<>>]
          /\ faults' = IF result \in {"error", "corrupt"}
                       THEN [faults EXCEPT ![id] = @ + 1] ELSE faults
          /\ CASE AfterLookup(result) = "respond" ->
                  /\ events' = [events EXCEPT ![r] =
                                  @ \o GetUserSpanStart(r) \o CacheHitEvents(r)]
                  /\ resp' = [resp EXCEPT ![r] =
                       [status |-> StatusOK, body |-> UserBody(Unmarshal(entry.val).user)]]
                  /\ err' = [err EXCEPT ![r] = NoErr]
                  /\ pc' = [pc EXCEPT ![r] = "loggingExit"]
               [] AfterLookup(result) = "query" ->
                  /\ events' = [events EXCEPT ![r] =
                                  @ \o GetUserSpanStart(r) \o CacheMissEvents(r, result)]
                  /\ pc' = [pc EXCEPT ![r] = "storeQuery"]
                  /\ UNCHANGED <<resp, err>>
               [] OTHER ->
                  /\ events' = [events EXCEPT ![r] = @ \o GetUserSpanStart(r)
                        \o <<Ev("spanEnd", "handler", 0, "handler.get-user", "", 0)>>]
                  /\ err' = [err EXCEPT ![r] =
                        NewError(StatusInternalServerError, "cache error")]
                  /\ pc' = [pc EXCEPT ![r] = "loggingExit"]
                  /\ UNCHANGED resp
  /\ UNCHANGED <<extVars, tracingEnabled, sampleAll, serverAlive, req, panic, ctx, errorHandlerRuns,
                 spanVars, dataVars, storeQueries, evictions, overlap>>

\* what QueryRow(...).Scan(...) comes to
StoreLookup(row, reachable) ==
  IF ~reachable THEN "error" ELSE IF row = NoUser THEN "norows" ELSE "found"

\* GetUser, step 2: the SELECT by primary key
GetUserStoreQuery(r) ==
  /\ pc[r] = "storeQuery"
  /\ \E reachable \in BOOLEAN :
       LET id == req[r].id
           result == StoreLookup(store[id], reachable)
       IN /\ storeQueries' = [storeQueries EXCEPT ![id] = @ + 1]
          /\ IF result = "found"
             THEN /\ local' = [local EXCEPT ![r].dbResult = result, ![r].user = store[id]]
                  /\ pc' = [pc EXCEPT ![r] = "cacheSet"]
                  /\ UNCHANGED <<events, err, faults>>
             ELSE /\ local' = [local EXCEPT ![r].dbResult = result]
                  /\ events' = [events EXCEPT ![r] =
                       @ \o <<LogEv("handler", LoggerTrace(r), "User not found", "error"),
                              Ev("spanEnd", "handler", 0, "handler.get-user", "", 0)>>]
                  /\ err' = [err EXCEPT ![r] = NewError(StatusNotFound, "User not found")]
                  /\ faults' = IF result = "error"
                               THEN [faults EXCEPT ![id] = @ + 1] ELSE faults
                  /\ pc' = [pc EXCEPT ![r] = "loggingExit"]
  /\ UNCHANGED <<extVars, tracingEnabled, sampleAll, serverAlive, req, resp, panic, ctx, errorHandlerRuns,
                 spanVars, dataVars, evictions, overlap>>

\* faulty variant: the key is written only when it is absent (SETNX)
RedisSetKeepsFirst(entry, val, ttl, ok) ==
  IF ok /\ entry = NoEntry THEN [val |-> val, ttl |-> ttl] ELSE entry

\* faulty variant: the write is lost although Set reports success
RedisSetDrops(entry, val, ttl, ok) == entry

\* faulty variant: Set is called without the expiry
RedisSetNoExpiry(entry, val, ttl, ok) == IF ok THEN [val |-> val, ttl |-> -1] ELSE entry

\* database.GetRedis().Set(ctx, cacheKey, userJSON, 10*time.Minute): the entry
\* the cache holds afterwards; the result of Set is dropped
RedisSet(entry, val, ttl, ok) == IF ok THEN [val |-> val, ttl |-> ttl] ELSE entry

\* GetUser, step 3: save to Redis and respond
GetUserCacheSet(r) ==
  /\ pc[r] = "cacheSet"
  /\ \E ok \in BOOLEAN :
       LET id == req[r].id
           k == CacheKey(id)
       IN /\ cache' = [cache EXCEPT ![k] = RedisSet(@, Marshal(local[r].user), CacheTTL, ok)]
          /\ local' = [local EXCEPT ![r].setResult = IF ok THEN "ok" ELSE "failed"]
          /\ faults' = IF ok THEN faults ELSE [faults EXCEPT ![id] = @ + 1]
          /\ events' = [events EXCEPT ![r] =
               @ \o <<Ev("cacheSet", "handler", 0, "user", "", CacheTTL),
                      Ev("spanEnd", "handler", 0, "handler.get-user", "", 0)>>]
  /\ resp' = [resp EXCEPT ![r] = [status |-> StatusOK, body |-> UserBody(local[r].user)]]
  /\ err' = [err EXCEPT ![r] = NoErr]
  /\ pc' = [pc EXCEPT ![r] = "loggingExit"]
  /\ UNCHANGED <<extVars, tracingEnabled, sampleAll, serverAlive, req, panic, ctx, errorHandlerRuns,
                 spanVars, store, storeQueries, evictions, overlap>>

\* ------------------------------------------------ the stages after c.Next()
\* faulty variant: every error is reported as 500
EffectiveStatusAlways500(status, e) ==
  IF e.isErr THEN StatusInternalServerError ELSE status

\* faulty variant: the status code is reported without looking at the error
EffectiveStatusOfResponse(status, e) == status

\* LoggingMiddleware: the status code it reports
EffectiveStatus(status, e) ==
  IF e.isErr /\ status = StatusOK
  THEN (IF e.fiber THEN e.code ELSE StatusInternalServerError)
  ELSE status

\* LoggingMiddleware after c.Next() returned: metrics, then the logs
LoggingRecords(r) ==
  LET statusCode == EffectiveStatus(resp[r].status, err[r])
  IN <<MetricEv("http.requests_total", statusCode),
       MetricEv("http.request.duration_ms", statusCode),
       MetricEv("http.request.size_bytes", 0),
       MetricEv("http.response.size_bytes", 0),
       Ev("log", "logging", LoggerTrace(r), "Request completed", "info", statusCode)>>
     \o (IF err[r].isErr
         THEN <<LogEv("logging", LoggerTrace(r), "Request error", "error")>>
         ELSE <<>>)

\* faulty variant: the stage returns right after c.Next()
LoggingAfterNextSkips(r) == <<>>

\* what LoggingMiddleware does once the handler is over: it has no deferred
\* function, so a panic passing through its frame skips the rest of it
LoggingAfterNext(r) == IF Panicking(r) THEN <<>> ELSE LoggingRecords(r)

LoggingExit(r) ==
  /\ pc[r] = "loggingExit"
  /\ events' = [events EXCEPT ![r] = @ \o LoggingAfterNext(r)]
  /\ pc' = [pc EXCEPT ![r] = BeforeRecoveryExit]
  /\ UNCHANGED <<extVars, tracingEnabled, sampleAll, serverAlive, req, resp, err, panic, ctx, local,
                 errorHandlerRuns, spanVars, dataVars, histVars>>

\* TracingMiddleware after c.Next() returned, up to the return statement
TracingRecords(r, s) ==
  <<Ev("setAttr", "tracing", s, "http.status_code", "", resp[r].status)>>
  \o (IF err[r].isErr
      THEN <<Ev("recordError", "tracing", s, "", err[r].msg, 0),
             Ev("setStatus", "tracing", s, "error", err[r].msg, 0)>>
      ELSE <<>>)
  \o <<Ev("inject", "tracing", s, "traceparent", "", 0)>>

\* faulty variant: span.End() is called after c.Next() instead of being deferred
TracingAfterNextNoDefer(r, s) ==
  IF Panicking(r) THEN <<>>
  ELSE TracingRecords(r, s) \o <<Ev("spanEnd", "tracing", s, "server", "", 0)>>

\* the span calls of TracingMiddleware once the handler is over: all of them on
\* a normal return, the deferred span.End() alone when a panic unwinds the frame
TracingAfterNext(r, s) ==
  (IF Panicking(r) THEN <<>> ELSE TracingRecords(r, s))
  \o <<Ev("spanEnd", "tracing", s, "server", "", 0)>>

TracingExit(r) ==
  /\ pc[r] = "tracingExit"
  /\ LET s == ctx[r]
     IN /\ events' = [events EXCEPT ![r] = @ \o TracingAfterNext(r, s)]
        /\ spans' = [spans EXCEPT ![s] = ApplyAll(@, TracingAfterNext(r, s))]
  /\ pc' = [pc EXCEPT ![r] = "recoveryExit"]
  /\ UNCHANGED <<extVars, tracingEnabled, sampleAll, serverAlive, req, resp, err, panic, ctx, local,
                 errorHandlerRuns, nextSpan, dataVars, histVars>>

\* faulty variant: the deferred function does not call recover()
NeverRecovers(r) == FALSE

\* RecoveryMiddleware's deferred function: recover() stops the panic
Recovers(r) == Panicking(r)

\* faulty variant: the deferred function sets the status and writes no body
RecoveredResponseNoBody == [status |-> StatusInternalServerError, body |-> EmptyBody]

\* the response the deferred function writes
RecoveredResponse ==
  [status |-> StatusInternalServerError, body |-> ErrorBody("Internal Server Error")]

\* faulty variant: the deferred function annotates the span without asking IsRecording
RecoveryRecordsUnguarded(r, s) ==
  <<Ev("setStatus", "recovery", s, "error", "panic recovered", 0),
    Ev("recordError", "recovery", s, "", panic[r], 0),
    Ev("setAttr", "recovery", s, "panic.error", panic[r], 0),
    Ev("setAttr", "recovery", s, "panic.stack", "", 0)>>

\* the span calls of the deferred function, made only on a recording span
RecoveryRecords(r, s) ==
  IF IsRecording(s)
  THEN <<Ev("setStatus", "recovery", s, "error", "panic recovered", 0),
         Ev("recordError", "recovery", s, "", panic[r], 0),
         Ev("setAttr", "recovery", s, "panic.error", panic[r], 0),
         Ev("setAttr", "recovery", s, "panic.stack", "", 0)>>
  ELSE <<>>

\* the error RecoveryMiddleware returns: c.Next()'s, or nil after a recover
\* (the function has no named result for the deferred function to set)
RecoveryResult(r) == IF Recovers(r) THEN NoErr ELSE err[r]

\* RecoveryMiddleware after c.Next(): the return, and on a panic the deferred
\* function; then the application calls its ErrorHandler when an error came back
RecoveryExit(r) ==
  /\ pc[r] = "recoveryExit"
  /\ LET s == SpanFromContext(r)
     IN IF Recovers(r)
        THEN /\ events' = [events EXCEPT ![r] =
                  @ \o RecoveryRecords(r, s)
                    \o <<LogEv("recovery", 0, "Panic recovered", "error")>>]
             /\ spans' = IF s # 0
                         THEN [spans EXCEPT ![s] = ApplyAll(@, RecoveryRecords(r, s))]
                         ELSE spans
             /\ resp' = [resp EXCEPT ![r] = RecoveredResponse]
             /\ panic' = [panic EXCEPT ![r] = NoPanic]
        ELSE UNCHANGED <<events, spans, resp, panic>>
  /\ err' = [err EXCEPT ![r] = RecoveryResult(r)]
  /\ IF Panicking(r) /\ ~Recovers(r)
     THEN /\ serverAlive' = FALSE
          /\ pc' = [pc EXCEPT ![r] = "crashed"]
     ELSE /\ serverAlive' = serverAlive
          /\ pc' = [pc EXCEPT ![r] = IF RecoveryResult(r).isErr THEN "errorHandler" ELSE "done"]
  /\ UNCHANGED <<extVars, tracingEnabled, sampleAll, req, ctx, local, errorHandlerRuns, nextSpan,
                 dataVars, histVars>>

\* faulty variant: the ErrorHandler ignores the error's own code
ErrorCodeAlways500(e) == StatusInternalServerError

\* fiber.Config.ErrorHandler
ErrorCode(e) == IF e.fiber THEN e.code ELSE StatusInternalServerError

ErrorHandler(r) ==
  /\ pc[r] = "errorHandler"
  /\ events' = [events EXCEPT ![r] =
       Append(@, Ev("log", "errorHandler", LoggerTrace(r), "Request error", "error",
                    ErrorCode(err[r])))]
  /\ resp' = [resp EXCEPT ![r] =
       [status |-> ErrorCode(err[r]), body |-> ErrorBody(err[r].msg)]]
  /\ errorHandlerRuns' = [errorHandlerRuns EXCEPT ![r] = @ + 1]
  /\ pc' = [pc EXCEPT ![r] = "done"]
  /\ UNCHANGED <<extVars, tracingEnabled, sampleAll, serverAlive, req, err, panic, ctx, local,
                 spanVars, dataVars, histVars>>

\* ------------------------------------------------------------- environment
\* TickMinutes minutes pass: Redis counts every entry's ttl down and drops the
\* entry when nothing is left of it
Expire(entry) ==
  IF entry.ttl <= 0 THEN entry
  ELSE IF entry.ttl > TickMinutes THEN [entry EXCEPT !.ttl = @ - TickMinutes]
  ELSE NoEntry

Tick ==
  /\ \E k \in CacheKeys : cache[k].ttl > 0
  /\ cache' = [k \in CacheKeys |-> Expire(cache[k])]
  /\ evictions' = [id \in UserIds |->
       IF cache[CacheKey(id)].ttl > 0 /\ cache'[CacheKey(id)] = NoEntry
       THEN evictions[id] + 1 ELSE evictions[id]]
  /\ UNCHANGED <<extVars, tracingEnabled, sampleAll, serverAlive, reqVars, spanVars, store,
                 storeQueries, faults, overlap>>

\* ----------------------------------------------------------- specification
Next ==
  \/ \E r \in Reqs :
       \/ Accept(r)
       \/ RecoveryEnter(r)
       \/ TracingEnter(r)
       \/ LoggingEnter(r)
       \/ HandlerRoot(r)
       \/ HandlerDebugError(r)
       \/ HandlerApiError(r)
       \/ HandlerApiPanic(r)
       \/ GetUserCacheGet(r)
       \/ GetUserStoreQuery(r)
       \/ GetUserCacheSet(r)
       \/ LoggingExit(r)
       \/ TracingExit(r)
       \/ RecoveryExit(r)
       \/ ErrorHandler(r)
  \/ Tick

Spec == Init /\ [][Next]_vars


\* ------------------------------------------------- CreateUser, then GetUser
\* the request bodies POST /api/users is called with; the last lacks the name
Malformed == [name |-> "{", email |-> "{"]
CreateBodies ==
  {[name |-> "Alice", email |-> "a@x.com"], [name |-> "Bob", email |-> "b@x.com"],
   [name |-> "", email |-> "a@x.com"], Malformed}

CrudRoutes == {"createUser", "getUser"}

NewCrudReq ==
  [route |-> "root", id |-> 0, afterPanic |-> FALSE, name |-> "", email |-> "",
   afterCreate |-> FALSE, firstRead |-> FALSE, secondRead |-> FALSE]

\* the other requests that read the id and were accepted before now
PriorReads(r, id) ==
  {q \in CrudReqs \ {r} : pc[q] # "idle" /\ req[q].route = "getUser" /\ req[q].id = id}

\* the server accepts a POST /api/users or a GET /api/users/:id from a client
\* that sends its requests one after the other
CrudAccept(r) ==
  /\ serverAlive
  /\ pc[r] = "idle"
  /\ \A q \in CrudReqs : ~InFlight(q)
  /\ \E route \in CrudRoutes, id \in UserIds \cup {0}, body \in CreateBodies :
       /\ (route = "getUser") <=> (id # 0)
       /\ (route = "getUser") => body = Malformed
       /\ LET prior == PriorReads(r, id)
              after == id # 0 /\ store[id] # NoUser
          IN /\ req' = [req EXCEPT ![r] =
                  [route |-> route, id |-> id, afterPanic |-> FALSE,
                   name |-> body.name, email |-> body.email,
                   afterCreate |-> after,
                   firstRead |-> after /\ prior = {},
                   secondRead |-> after /\ \E q \in prior :
                                    prior = {q} /\ pc[q] = "done" /\ req[q].firstRead]]
  /\ pc' = [pc EXCEPT ![r] = "recovery"]
  /\ UNCHANGED <<extVars, tracingEnabled, sampleAll, serverAlive, resp, err, panic, ctx, events,
                 local, errorHandlerRuns, spanVars, dataVars, histVars>>

\* what the INSERT ... RETURNING comes to: "error" when the store is
\* unreachable or the email is taken (UNIQUE), else "inserted"
StoreInsert(st, email, reachable) ==
  IF ~reachable \/ \E id \in UserIds : st[id] # NoUser /\ st[id].email = email
  THEN "error" ELSE "inserted"

\* CreateUser
HandlerCreateUser(r) ==
  /\ pc[r] = "handler" /\ req[r].route = "createUser"
  /\ \E reachable \in BOOLEAN :
       LET body == [name |-> req[r].name, email |-> req[r].email]
           result == StoreInsert(store, body.email, reachable)
           user == [id |-> nextId, name |-> body.name, email |-> body.email,
                    created_at |-> Now]
       IN CASE body = Malformed ->
                 /\ events' = [events EXCEPT ![r] = Append(@,
                      LogEv("handler", LoggerTrace(r), "Invalid request body", "error"))]
                 /\ err' = [err EXCEPT ![r] =
                      NewError(StatusBadRequest, "Invalid request body")]
                 /\ UNCHANGED <<resp, store, nextId>>
            [] body # Malformed /\ (body.name = "" \/ body.email = "") ->
                 /\ err' = [err EXCEPT ![r] =
                      NewError(StatusBadRequest, "name and email are required")]
                 /\ UNCHANGED <<events, resp, store, nextId>>
            [] OTHER ->
                 IF result = "inserted"
                 THEN /\ nextId <= NumIds
                      /\ store' = [store EXCEPT ![nextId] = user]
                      /\ nextId' = nextId + 1
                      /\ events' = [events EXCEPT ![r] = @ \o
                           <<Ev("spanStart", "handler", 0, "db.create-user", "", 0),
                             Ev("setAttr", "handler", 0, "user.id", "", nextId),
                             LogEv("handler", LoggerTrace(r), "User created", "info"),
                             Ev("spanEnd", "handler", 0, "db.create-user", "", 0)>>]
                      /\ resp' = [resp EXCEPT ![r] =
                           [status |-> StatusCreated, body |-> CreatedBody(user)]]
                      /\ err' = [err EXCEPT ![r] = NoErr]
                 ELSE /\ events' = [events EXCEPT ![r] = @ \o
                           <<Ev("spanStart", "handler", 0, "db.create-user", "", 0),
                             LogEv("handler", LoggerTrace(r), "Failed to create user", "error"),
                             Ev("spanEnd", "handler", 0, "db.create-user", "", 0)>>]
                      /\ err' = [err EXCEPT ![r] =
                           NewError(StatusInternalServerError, "Failed to create user")]
                      /\ UNCHANGED <<resp, store, nextId>>
  /\ pc' = [pc EXCEPT ![r] = "loggingExit"]
  /\ UNCHANGED <<mainVars, fnVars, tracingEnabled, sampleAll, serverAlive, req, panic, ctx,
                 local, errorHandlerRuns, spanVars, cache, histVars>>

\* the service with an empty users table, called with creations and reads by a
\* client that waits for each answer (one run of the stress script's hit_endpoints)
CrudInit ==
  /\ tracingEnabled \in BOOLEAN
  /\ sampleAll = tracingEnabled
  /\ serverAlive = TRUE
  /\ pc = [r \in CrudReqs |-> "idle"]
  /\ req = [r \in CrudReqs |-> NewCrudReq]
  /\ resp = [r \in CrudReqs |-> NewResponse]
  /\ err = [r \in CrudReqs |-> NoErr]
  /\ panic = [r \in CrudReqs |-> NoPanic]
  /\ ctx = [r \in CrudReqs |-> 0]
  /\ events = [r \in CrudReqs |-> <<>>]
  /\ local = [r \in CrudReqs |-> NewLocal]
  /\ errorHandlerRuns = [r \in CrudReqs |-> 0]
  /\ spans = [s \in CrudReqs |-> NewSpan]
  /\ nextSpan = 1
  /\ cache \in [CacheKeys -> {NoEntry, ForeignEntry}]
  /\ store = [id \in UserIds |-> NoUser]
  /\ storeQueries = [id \in UserIds |-> 0]
  /\ evictions = [id \in UserIds |-> 0]
  /\ faults = [id \in UserIds |-> 0]
  /\ overlap = [id \in UserIds |-> FALSE]
  /\ nextId = 1
  /\ InitServing
  /\ InitFn

CrudNext ==
  \/ \E r \in CrudReqs :
       \/ CrudAccept(r)
       \/ RecoveryEnter(r)
       \/ TracingEnter(r)
       \/ LoggingEnter(r)
       \/ HandlerCreateUser(r)
       \/ GetUserCacheGet(r)
       \/ GetUserStoreQuery(r)
       \/ GetUserCacheSet(r)
       \/ LoggingExit(r)
       \/ TracingExit(r)
       \/ RecoveryExit(r)
       \/ ErrorHandler(r)
  \/ Tick

CrudSpec == CrudInit /\ [][CrudNext]_vars

\* ------------------------------------------------ main: startup and teardown
\* the calls main makes after the shutdown trigger that stop a subsystem
Closers ==
  {"app.Shutdown", "database.CloseRedis", "database.Close", "metrics.Shutdown",
   "tracer.Shutdown", "logger.Shutdown"}

\* the handle a teardown call closes, "" for the HTTP server
ClosedBy(call) ==
  CASE call = "database.CloseRedis" -> "cache"
    [] call = "database.Close" -> "pool"
    [] call = "metrics.Shutdown" -> "meter"
    [] call = "tracer.Shutdown" -> "tracer"
    [] call = "logger.Shutdown" -> "logger"
    [] OTHER -> ""

\* the teardown calls that run under a context with a deadline:
\* app.ShutdownWithContext(shutdownCtx), and the tracer's and the logger's
\* Shutdown, which wrap their context in context.WithTimeout; metrics.Shutdown
\* passes main's context.Background() on, pool.Close() and rdb.Close() take none
HasDeadline(call) == call \in {"app.Shutdown", "tracer.Shutdown", "logger.Shutdown"}

\* the teardown calls that can return an error; each of them logs it
CanFail(call) == call \in Closers \ {"database.Close"}

Running == exitCode = -1
Drained == \A r \in LifeReqs : ~InFlight(r)

\* where main goes after an init step
AfterInit(step) ==
  CASE step = "logger" -> "tracer"
    [] step = "tracer" -> "metrics"
    [] step = "metrics" -> "database"
    [] step = "database" -> "redis"
    [] step = "redis" -> "migrations"
    [] OTHER -> "listen"

\* how an init step can end: InitTracer returns at once when tracing is
\* disabled; InitMetrics logs a failure of runtime.Start() and returns nil
InitOutcomes(step) ==
  CASE step = "tracer" /\ ~tracingEnabled -> {"skipped"}
    [] step = "metrics" -> {"ok", "error", "runtimeError"}
    [] OTHER -> {"ok", "error"}

\* what the init function returns to main
InitResult(outcome) == IF outcome = "error" THEN "error" ELSE "nil"

\* one init step of main: logger, tracer, metrics, database, redis, migrations.
\* A failed InitLogger panics (exit status 2), any other failure is log.Fatal
\* (exit status 1); neither runs the deferred calls.
InitStep ==
  /\ Running /\ mainPc \in {"logger", "tracer", "metrics", "database", "redis", "migrations"}
  /\ \E outcome \in InitOutcomes(mainPc) :
       LET step == mainPc
           h == HandleOf(step)
           record == (IF outcome = "runtimeError"
                      THEN <<StepEv("runtime", "error"), StepEv("runtime", "logged")>>
                      ELSE <<>>)
       IN IF InitResult(outcome) = "nil"
          THEN /\ steps' = steps \o record
                    \o <<StepEv(step, IF outcome = "skipped" THEN "skipped" ELSE "ok")>>
               /\ handle' = IF h = "" THEN handle
                            ELSE [handle EXCEPT ![h] = IF outcome = "skipped" THEN "off" ELSE "up"]
               /\ deferred' = deferred \o DeferredOf(step)
               /\ mainPc' = AfterInit(step)
               /\ UNCHANGED exitCode
          ELSE /\ steps' = steps \o record
                    \o <<StepEv(step, "error"), StepEv(step, IF step = "logger" THEN "panic" ELSE "fatal")>>
               /\ exitCode' = IF step = "logger" THEN 2 ELSE 1
               /\ mainPc' = "exited"
               /\ UNCHANGED <<handle, deferred>>
  /\ UNCHANGED <<listening, hung, nextId, fnVars, tracingEnabled, sampleAll, serverAlive,
                 reqVars, spanVars, dataVars, histVars>>

\* main creates the app, defers cancel and starts app.Listen in a goroutine;
\* Listen may fail, which cancels main's context
StartServer ==
  /\ Running /\ mainPc = "listen"
  /\ \E bound \in BOOLEAN :
       /\ listening' = bound
       /\ steps' = steps \o <<StepEv("listen", IF bound THEN "ok" ELSE "error")>>
  /\ deferred' = Append(deferred, "cancel")
  /\ mainPc' = "serving"
  /\ UNCHANGED <<handle, exitCode, hung, nextId, fnVars, tracingEnabled, sampleAll,
                 serverAlive, reqVars, spanVars, dataVars, histVars>>

\* the select in main returns: a SIGINT or SIGTERM arrived, or Listen failed
Trigger ==
  /\ Running /\ mainPc = "serving"
  /\ steps' = Append(steps, StepEv("trigger", IF listening THEN "signal" ELSE "cancelled"))
  /\ mainPc' = "triggered"
  /\ UNCHANGED <<handle, deferred, exitCode, listening, hung, nextId, fnVars, tracingEnabled,
                 sampleAll, serverAlive, reqVars, spanVars, dataVars, histVars>>

\* main defers shutdownCancel and calls app.ShutdownWithContext: the server
\* stops accepting
BeginServerShutdown ==
  /\ Running /\ mainPc = "triggered"
  /\ deferred' = Append(deferred, "shutdownCancel")
  /\ steps' = Append(steps, StepEv("app.Shutdown", "begin"))
  /\ listening' = FALSE
  /\ mainPc' = "app.Shutdown"
  /\ UNCHANGED <<handle, exitCode, hung, nextId, fnVars, tracingEnabled, sampleAll,
                 serverAlive, reqVars, spanVars, dataVars, histVars>>

\* faulty variant: the deferred calls run in the order they were deferred
FirstDeferred(stack) == 1

\* the deferred call that runs next: the one deferred last
NextDeferred(stack) == Len(stack)

Without(stack, i) == [j \in 1..(Len(stack) - 1) |-> IF j < i THEN stack[j] ELSE stack[j + 1]]

\* main returns: the next deferred call starts. A cancel function returns at
\* once, and so does tracer.Shutdown when there is no tracer provider.
RunDeferred ==
  /\ Running /\ mainPc = "deferred" /\ deferred # <<>>
  /\ LET i == NextDeferred(deferred)
         call == deferred[i]
         h == ClosedBy(call)
     IN /\ deferred' = Without(deferred, i)
        /\ IF call \notin Closers
           THEN /\ steps' = Append(steps, StepEv(call, "ok"))
                /\ UNCHANGED <<mainPc, handle>>
           ELSE IF handle[h] \in {"off", "none"}
           THEN /\ steps' = Append(steps, StepEv(call, "skipped"))
                /\ UNCHANGED <<mainPc, handle>>
           ELSE /\ steps' = Append(steps, StepEv(call, "begin"))
                /\ handle' = [handle EXCEPT ![h] = "closing"]
                /\ mainPc' = call
  /\ UNCHANGED <<exitCode, listening, hung, nextId, fnVars, tracingEnabled, sampleAll,
                 serverAlive, reqVars, spanVars, dataVars, histVars>>

\* faulty variant: a failed teardown call ends the process (log.Fatal)
AfterCallAborts(outcome) == IF outcome = "ok" THEN "deferred" ELSE "exited"

\* where main goes when a teardown call returned: on to the next one, whatever
\* the call returned
AfterCall(outcome) == "deferred"

\* what main's history gets when a teardown call returns
Returned(call, outcome) ==
  <<StepEv(call, outcome)>>
  \o (IF outcome # "ok" THEN <<StepEv(call, "logged")>> ELSE <<>>)

\* the teardown call main is in returns
Return(outcome) ==
  /\ steps' = steps \o Returned(mainPc, outcome)
  /\ handle' = IF ClosedBy(mainPc) = "" THEN handle
               ELSE [handle EXCEPT ![ClosedBy(mainPc)] = "closed"]
  /\ mainPc' = AfterCall(outcome)
  /\ exitCode' = IF AfterCall(outcome) = "exited" THEN 1 ELSE exitCode
  /\ hung' = FALSE
  /\ UNCHANGED <<deferred, listening, nextId, fnVars, tracingEnabled, sampleAll,
                 serverAlive, reqVars, spanVars, dataVars, histVars>>

\* the call returns by itself: app.ShutdownWithContext returns nil once no
\* request is in flight
CallReturns ==
  /\ Running /\ mainPc \in Closers /\ ~hung
  /\ \E outcome \in {"ok", "error"} :
       /\ outcome = "error" => CanFail(mainPc)
       /\ (mainPc = "app.Shutdown" /\ outcome = "ok") => Drained
       /\ Return(outcome)

\* the call does not return by itself (an exporter or a peer that never answers)
CallHangs ==
  /\ Running /\ mainPc \in Closers /\ ~hung
  /\ hung' = TRUE
  /\ UNCHANGED <<mainPc, handle, deferred, steps, exitCode, listening, nextId, fnVars,
                 tracingEnabled, sampleAll, serverAlive, reqVars, spanVars, dataVars, histVars>>

\* the deadline of the call's context passes: the call returns its error
DeadlineExpires ==
  /\ Running /\ mainPc \in Closers /\ HasDeadline(mainPc)
  /\ hung \/ (mainPc = "app.Shutdown" /\ ~Drained)
  /\ Return("timeout")

\* the last deferred call returned: the process exits with status 0, and every
\* request task still running ends with it
Exit ==
  /\ Running /\ mainPc = "deferred" /\ deferred = <<>>
  /\ steps' = Append(steps, StepEv("exit", "ok"))
  /\ exitCode' = 0
  /\ mainPc' = "exited"
  /\ UNCHANGED <<handle, deferred, listening, hung, nextId, fnVars, tracingEnabled, sampleAll,
                 serverAlive, reqVars, spanVars, dataVars, histVars>>

LifeMain ==
  \/ InitStep
  \/ StartServer
  \/ Trigger
  \/ BeginServerShutdown
  \/ RunDeferred
  \/ CallReturns
  \/ CallHangs
  \/ DeadlineExpires
  \/ Exit

LifeRoutes == {"root", "getUser"}

\* the listening server accepts a request
LifeAccept(r) ==
  /\ Running /\ listening
  /\ pc[r] = "idle"
  /\ \E route \in LifeRoutes, id \in UserIds \cup {0} :
       /\ (route = "getUser") <=> (id # 0)
       /\ req' = [req EXCEPT ![r] = [route |-> route, id |-> id, afterPanic |-> FALSE]]
  /\ pc' = [pc EXCEPT ![r] = "recovery"]
  /\ UNCHANGED <<extVars, tracingEnabled, sampleAll, serverAlive, resp, err, panic, ctx, events,
                 local, errorHandlerRuns, spanVars, dataVars, histVars>>

\* a step of a request task of the running process; a call on a client that
\* is being closed or is closed fails
LifeRequest(r) ==
  /\ Running
  /\ \/ RecoveryEnter(r)
     \/ TracingEnter(r)
     \/ LoggingEnter(r)
     \/ HandlerRoot(r)
     \/ GetUserCacheGet(r) /\ (handle.cache # "up" => local'[r].cacheResult = "error")
     \/ GetUserStoreQuery(r) /\ (handle.pool # "up" => local'[r].dbResult = "error")
     \/ GetUserCacheSet(r) /\ (handle.cache # "up" => local'[r].setResult = "failed")
     \/ LoggingExit(r)
     \/ TracingExit(r)
     \/ RecoveryExit(r)
     \/ ErrorHandler(r)

\* the process from the first line of main
LifeInit ==
  /\ tracingEnabled \in BOOLEAN
  /\ sampleAll = tracingEnabled
  /\ serverAlive = TRUE
  /\ pc = [r \in LifeReqs |-> "idle"]
  /\ req = [r \in LifeReqs |-> NewReq]
  /\ resp = [r \in LifeReqs |-> NewResponse]
  /\ err = [r \in LifeReqs |-> NoErr]
  /\ panic = [r \in LifeReqs |-> NoPanic]
  /\ ctx = [r \in LifeReqs |-> 0]
  /\ events = [r \in LifeReqs |-> <<>>]
  /\ local = [r \in LifeReqs |-> NewLocal]
  /\ errorHandlerRuns = [r \in LifeReqs |-> 0]
  /\ spans = [s \in LifeReqs |-> NewSpan]
  /\ nextSpan = 1
  /\ cache = [k \in CacheKeys |-> NoEntry]
  /\ store = [id \in UserIds |-> SeedUser(id)]
  /\ storeQueries = [id \in UserIds |-> 0]
  /\ evictions = [id \in UserIds |-> 0]
  /\ faults = [id \in UserIds |-> 0]
  /\ overlap = [id \in UserIds |-> FALSE]
  /\ nextId = NumIds + 1
  /\ mainPc = "logger"
  /\ handle = HandlesNone
  /\ deferred = <<>>
  /\ steps = <<>>
  /\ exitCode = -1
  /\ listening = FALSE
  /\ hung = FALSE
  /\ InitFn

LifeNext ==
  \/ LifeMain
  \/ \E r \in LifeReqs : LifeAccept(r) \/ LifeRequest(r)
  \/ Running /\ Tick

LifeSpec == LifeInit /\ [][LifeNext]_vars

\* ------------------------------------- LoggingMiddleware's status computation
\* an error that is not a *fiber.Error
PlainError(msg) == [isErr |-> TRUE, fiber |-> FALSE, code |-> 0, msg |-> msg]

\* the response status codes and the errors c.Next() can leave behind
Statuses == {200, 201, 204, 400, 404, 500, 503}
Errors ==
  {NoErr, PlainError("unexpected EOF")}
  \cup {NewError(code, "failed") : code \in {400, 401, 404, 409, 500, 503}}

\* statusCode := c.Response().StatusCode() and the if that follows it
ApplyEffectiveStatus ==
  /\ fnResult = 0
  /\ fnResult' = EffectiveStatus(fnArg.status, fnArg.e)
  /\ UNCHANGED <<fnArg, nextId, mainVars, tracingEnabled, sampleAll, serverAlive, reqVars,
                 spanVars, dataVars, histVars>>

\* the computation on every pair of a response status and an error
StatusInit ==
  /\ fnArg \in [status : Statuses, e : Errors]
  /\ fnResult = 0
  /\ tracingEnabled = FALSE
  /\ sampleAll = FALSE
  /\ serverAlive = TRUE
  /\ pc = [r \in Reqs |-> "idle"]
  /\ req = [r \in Reqs |-> NewReq]
  /\ resp = [r \in Reqs |-> NewResponse]
  /\ err = [r \in Reqs |-> NoErr]
  /\ panic = [r \in Reqs |-> NoPanic]
  /\ ctx = [r \in Reqs |-> 0]
  /\ events = [r \in Reqs |-> <<>>]
  /\ local = [r \in Reqs |-> NewLocal]
  /\ errorHandlerRuns = [r \in Reqs |-> 0]
  /\ spans = [s \in SpanIds |-> NewSpan]
  /\ nextSpan = 1
  /\ cache = [k \in CacheKeys |-> NoEntry]
  /\ store = [id \in UserIds |-> NoUser]
  /\ storeQueries = [id \in UserIds |-> 0]
  /\ evictions = [id \in UserIds |-> 0]
  /\ faults = [id \in UserIds |-> 0]
  /\ overlap = [id \in UserIds |-> FALSE]
  /\ nextId = 1
  /\ InitServing

StatusNext == ApplyEffectiveStatus

StatusSpec == StatusInit /\ [][StatusNext]_vars

\* ------------------------------------- the service with and without tracing
\* the process is restarted with another TRACING_ENABLED (and sampling rate)
\* while no request is being served; Redis and PostgreSQL keep their contents
Redeploy ==
  /\ \A r \in Reqs : ~InFlight(r)
  /\ \E r \in Reqs : pc[r] = "idle"
  /\ tracingEnabled' = ~tracingEnabled
  /\ sampleAll' \in BOOLEAN
  /\ tracingEnabled' \/ ~sampleAll'
  /\ UNCHANGED <<extVars, serverAlive, reqVars, spanVars, dataVars, histVars>>

\* a request of a client that waits for each answer
TwinAccept(r) ==
  /\ \A q \in Reqs : ~InFlight(q)
  /\ Accept(r)

TwinNext ==
  \/ \E r \in Reqs :
       \/ TwinAccept(r)
       \/ RecoveryEnter(r)
       \/ TracingEnter(r)
       \/ LoggingEnter(r)
       \/ HandlerRoot(r)
       \/ HandlerDebugError(r)
       \/ HandlerApiError(r)
       \/ HandlerApiPanic(r)
       \/ GetUserCacheGet(r)
       \/ GetUserStoreQuery(r)
       \/ GetUserCacheSet(r)
       \/ LoggingExit(r)
       \/ TracingExit(r)
       \/ RecoveryExit(r)
       \/ ErrorHandler(r)
  \/ Tick
  \/ Redeploy

TwinSpec == Init /\ [][TwinNext]_vars

\* ------------------------------------------------------------- GET /health
\* database.HealthCheck: pool.Ping
DatabaseHealthCheck(reachable) == IF reachable THEN "ok" ELSE "error"

\* database.RedisHealthCheck: an error without a client, else rdb.Ping
RedisHealthCheck(client, reachable) ==
  IF client = "none" THEN "error" ELSE IF reachable THEN "ok" ELSE "error"

\* dbStatus, redisStatus
DependencyStatus(result) == IF result = "ok" THEN "up" ELSE "down"

\* faulty variant: the status code looks at the database alone
HealthStatusDatabaseOnly(dbStatus, redisStatus) ==
  IF dbStatus # "up" THEN StatusServiceUnavailable ELSE StatusOK

\* the status code HealthCheck answers with
HealthStatus(dbStatus, redisStatus) ==
  IF dbStatus # "up" \/ redisStatus # "up" THEN StatusServiceUnavailable ELSE StatusOK

\* the JSON body of the health report
HealthBody(status, dbStatus, redisStatus) ==
  [kind |-> "health", error |-> "", user |-> NoUser,
   status |-> IF status = StatusOK THEN "healthy" ELSE "unhealthy",
   database |-> dbStatus, redis |-> redisStatus]

\* the server accepts a GET /health
HealthAccept(r) ==
  /\ serverAlive
  /\ pc[r] = "idle"
  /\ req' = [req EXCEPT ![r] = [route |-> "health", id |-> 0, afterPanic |-> FALSE]]
  /\ pc' = [pc EXCEPT ![r] = "recovery"]
  /\ UNCHANGED <<extVars, tracingEnabled, sampleAll, serverAlive, resp, err, panic, ctx, events,
                 local, errorHandlerRuns, spanVars, dataVars, histVars>>

\* HealthCheck: the two dependency checks, then the report
HandlerHealth(r) ==
  /\ pc[r] = "handler" /\ req[r].route = "health"
  /\ \E dbReachable, redisReachable \in BOOLEAN :
       LET dbResult == DatabaseHealthCheck(dbReachable)
           redisResult == RedisHealthCheck(handle["cache"], redisReachable)
           dbStatus == DependencyStatus(dbResult)
           redisStatus == DependencyStatus(redisResult)
           status == HealthStatus(dbStatus, redisStatus)
       IN /\ events' = [events EXCEPT ![r] = @ \o
               <<Ev("ping", "handler", 0, "database", dbResult, 0),
                 Ev("ping", "handler", 0, "redis", redisResult, 0)>>]
          /\ resp' = [resp EXCEPT ![r] =
               [status |-> status, body |-> HealthBody(status, dbStatus, redisStatus)]]
  /\ err' = [err EXCEPT ![r] = NoErr]
  /\ pc' = [pc EXCEPT ![r] = "loggingExit"]
  /\ UNCHANGED <<extVars, tracingEnabled, sampleAll, serverAlive, req, panic, ctx, local,
                 errorHandlerRuns, spanVars, dataVars, histVars>>

HealthNext ==
  \E r \in Reqs :
    \/ HealthAccept(r)
    \/ RecoveryEnter(r)
    \/ TracingEnter(r)
    \/ LoggingEnter(r)
    \/ HandlerHealth(r)
    \/ LoggingExit(r)
    \/ TracingExit(r)
    \/ RecoveryExit(r)

\* the service answering health probes, two at a time
HealthSpec == Init /\ [][HealthNext]_vars

\* ------------------------------------------------- ListUsers: the pagination
\* a query parameter as the client sent it: absent, a decimal number, or text
\* that is no number
Absent == [kind |-> "absent", n |-> 0]
Text == [kind |-> "text", n |-> 0]
Num(n) == [kind |-> "num", n |-> n]

QueryNumbers == {-5, -1, 0, 1, 2, 10, 99, 100, 101, 250}
QueryValues == {Absent, Text} \cup {Num(n) : n \in QueryNumbers}

MaxLimit == 100
DefaultLimit == 10
DefaultPage == 1

NoPagination == [applied |-> FALSE, limit |-> 0, page |-> 0, offset |-> 0]

\* c.Query(key, defaultValue)
Query(q, default) == IF q = Absent THEN Num(default) ELSE q

\* strconv.Atoi with its error dropped: 0 for text that is no number
Atoi(q) == IF q.kind = "num" THEN q.n ELSE 0

\* faulty variant: the limit is passed on as parsed
ClampLimitOff(limit) == limit

\* if limit > 100 { limit = 100 }
ClampLimit(limit) == IF limit > MaxLimit THEN MaxLimit ELSE limit

\* if page < 1 { page = 1 }
ClampPage(page) == IF page < 1 THEN 1 ELSE page

\* limit, page and offset as ListUsers hands them to the store query
Pagination(arg) ==
  LET limit == ClampLimit(Atoi(Query(arg.limit, DefaultLimit)))
      page == ClampPage(Atoi(Query(arg.page, DefaultPage)))
  IN [applied |-> TRUE, limit |-> limit, page |-> page, offset |-> (page - 1) * limit]

ParsePagination ==
  /\ ~fnResult.applied
  /\ fnResult' = Pagination(fnArg)
  /\ UNCHANGED <<fnArg, nextId, mainVars, tracingEnabled, sampleAll, serverAlive, reqVars,
                 spanVars, dataVars, histVars>>

\* the computation on every pair of a limit and a page query value
PageInit ==
  /\ fnArg \in [limit : QueryValues, page : QueryValues]
  /\ fnResult = NoPagination
  /\ tracingEnabled = FALSE
  /\ sampleAll = FALSE
  /\ serverAlive = TRUE
  /\ pc = [r \in Reqs |-> "idle"]
  /\ req = [r \in Reqs |-> NewReq]
  /\ resp = [r \in Reqs |-> NewResponse]
  /\ err = [r \in Reqs |-> NoErr]
  /\ panic = [r \in Reqs |-> NoPanic]
  /\ ctx = [r \in Reqs |-> 0]
  /\ events = [r \in Reqs |-> <<>>]
  /\ local = [r \in Reqs |-> NewLocal]
  /\ errorHandlerRuns = [r \in Reqs |-> 0]
  /\ spans = [s \in SpanIds |-> NewSpan]
  /\ nextSpan = 1
  /\ cache = [k \in CacheKeys |-> NoEntry]
  /\ store = [id \in UserIds |-> NoUser]
  /\ storeQueries = [id \in UserIds |-> 0]
  /\ evictions = [id \in UserIds |-> 0]
  /\ faults = [id \in UserIds |-> 0]
  /\ overlap = [id \in UserIds |-> FALSE]
  /\ nextId = 1
  /\ InitServing

PageNext == ParsePagination

PageSpec == PageInit /\ [][PageNext]_vars

\* ------------------------------------- CreateUser, GetUser and DeleteUser
MaxInFlight == 2

UserRoutes == {"createUser", "getUser", "deleteUser"}

NewUserReq ==
  [route |-> "root", id |-> 0, afterPanic |-> FALSE, name |-> "", email |-> "",
   afterCreate |-> FALSE, firstRead |-> FALSE, secondRead |-> FALSE, afterDelete |-> FALSE]

MessageBody(msg) == [kind |-> "json", error |-> "", user |-> NoUser, message |-> msg]

\* a DELETE of the id was answered with success
Deleted(id) ==
  \E q \in CrudReqs :
    /\ pc[q] = "done" /\ req[q].route = "deleteUser" /\ req[q].id = id
    /\ resp[q].status = StatusOK

\* the server accepts a request on one of the user routes while it serves
\* fewer than MaxInFlight others; requests are numbered in the order they arrive
UserAccept(r) ==
  /\ serverAlive
  /\ pc[r] = "idle"
  /\ \A q \in CrudReqs : q < r => pc[q] # "idle"
  /\ Cardinality({q \in CrudReqs : InFlight(q)}) < MaxInFlight
  /\ \E route \in UserRoutes, id \in UserIds \cup {0}, body \in CreateBodies :
       /\ (route = "createUser") <=> (id = 0)
       /\ (route # "createUser") => body = Malformed
       /\ req' = [req EXCEPT ![r] =
            [NewUserReq EXCEPT !.route = route, !.id = id,
                               !.name = body.name, !.email = body.email,
                               !.afterDelete = id # 0 /\ Deleted(id)]]
  /\ pc' = [pc EXCEPT ![r] = "recovery"]
  /\ UNCHANGED <<extVars, tracingEnabled, sampleAll, serverAlive, resp, err, panic, ctx, events,
                 local, errorHandlerRuns, spanVars, dataVars, histVars>>

\* what Exec of the DELETE comes to
StoreDelete(row, reachable) ==
  IF ~reachable THEN "error" ELSE IF row = NoUser THEN "norows" ELSE "deleted"

\* DeleteUser
HandlerDeleteUser(r) ==
  /\ pc[r] = "handler" /\ req[r].route = "deleteUser"
  /\ \E reachable \in BOOLEAN :
       LET id == req[r].id
           result == StoreDelete(store[id], reachable)
           begin == <<Ev("spanStart", "handler", 0, "db.delete-user", "", 0)>>
           end == <<Ev("spanEnd", "handler", 0, "db.delete-user", "", 0)>>
       IN CASE result = "error" ->
                 /\ events' = [events EXCEPT ![r] = @ \o begin
                      \o <<LogEv("handler", LoggerTrace(r), "Failed to delete user", "error")>>
                      \o end]
                 /\ err' = [err EXCEPT ![r] =
                      NewError(StatusInternalServerError, "Failed to delete user")]
                 /\ UNCHANGED <<resp, store>>
            [] result = "norows" ->
                 /\ events' = [events EXCEPT ![r] = @ \o begin \o end]
                 /\ err' = [err EXCEPT ![r] = NewError(StatusNotFound, "User not found")]
                 /\ UNCHANGED <<resp, store>>
            [] OTHER ->
                 /\ store' = [store EXCEPT ![id] = NoUser]
                 /\ events' = [events EXCEPT ![r] = @ \o begin
                      \o <<LogEv("handler", LoggerTrace(r), "User deleted", "info")>>
                      \o end]
                 /\ resp' = [resp EXCEPT ![r] =
                      [status |-> StatusOK, body |-> MessageBody("User deleted")]]
                 /\ err' = [err EXCEPT ![r] = NoErr]
  /\ pc' = [pc EXCEPT ![r] = "loggingExit"]
  /\ UNCHANGED <<extVars, tracingEnabled, sampleAll, serverAlive, req, panic, ctx, cache,
                 local, errorHandlerRuns, spanVars, histVars>>

\* the service in its default configuration (tracing on, every trace sampled)
\* over a users table that is empty or holds the rows created before
UserInit ==
  /\ tracingEnabled = TRUE
  /\ sampleAll = TRUE
  /\ serverAlive = TRUE
  /\ pc = [r \in CrudReqs |-> "idle"]
  /\ req = [r \in CrudReqs |-> NewUserReq]
  /\ resp = [r \in CrudReqs |-> NewResponse]
  /\ err = [r \in CrudReqs |-> NoErr]
  /\ panic = [r \in CrudReqs |-> NoPanic]
  /\ ctx = [r \in CrudReqs |-> 0]
  /\ events = [r \in CrudReqs |-> <<>>]
  /\ local = [r \in CrudReqs |-> NewLocal]
  /\ errorHandlerRuns = [r \in CrudReqs |-> 0]
  /\ spans = [s \in CrudReqs |-> NewSpan]
  /\ nextSpan = 1
  /\ cache = [k \in CacheKeys |-> NoEntry]
  /\ \/ store = [id \in UserIds |-> NoUser] /\ nextId = 1
     \/ store = [id \in UserIds |-> SeedUser(id)] /\ nextId = NumIds + 1
  /\ storeQueries = [id \in UserIds |-> 0]
  /\ evictions = [id \in UserIds |-> 0]
  /\ faults = [id \in UserIds |-> 0]
  /\ overlap = [id \in UserIds |-> FALSE]
  /\ InitServing
  /\ InitFn

UserNext ==
  \/ \E r \in CrudReqs :
       \/ UserAccept(r)
       \/ RecoveryEnter(r)
       \/ TracingEnter(r)
       \/ LoggingEnter(r)
       \/ HandlerCreateUser(r)
       \/ HandlerDeleteUser(r)
       \/ GetUserCacheGet(r)
       \/ GetUserStoreQuery(r)
       \/ GetUserCacheSet(r)
       \/ LoggingExit(r)
       \/ TracingExit(r)
       \/ RecoveryExit(r)
       \/ ErrorHandler(r)
  \/ Tick

UserSpec == UserInit /\ [][UserNext]_vars

\* ------------------------------------------------------------------ claims
\* how many of the request's recorded calls satisfy Test
Count(r, Test(_)) == Cardinality({i \in DOMAIN events[r] : Test(events[r][i])})

IsLog(e, stage, msg) == e.op = "log" /\ e.stage = stage /\ e.key = msg
IsMetric(e, name) == e.op = "metric" /\ e.key = name
IsServerSpanOp(e, op) == e.op = op /\ e.span # 0
IsServerSpanWrite(e) == e.op \in {"setAttr", "setStatus", "recordError"} /\ e.span # 0

PanicRoute(r) == req[r].route = "apiPanic"
Done(r) == pc[r] = "done"

\* the handler of the request returned an error
HandlerFailed(r) ==
  \/ req[r].route \in {"debugError", "apiError"}
  \/ req[r].route = "getUser" /\ local[r].dbResult \in {"norows", "error"}

\* C1, the response side: a panicking request ends with status 500 and the body
\* {"error":"Internal Server Error"}, RecoveryMiddleware returned nil, the
\* ErrorHandler did not run, and the process did not crash.
C1_PanicContained ==
  /\ serverAlive
  /\ \A r \in Reqs :
       /\ pc[r] # "crashed"
       /\ (PanicRoute(r) /\ Done(r)) =>
            /\ resp[r] = [status |-> 500, body |-> ErrorBody("Internal Server Error")]
            /\ err[r] = NoErr
            /\ errorHandlerRuns[r] = 0
            /\ Count(r, LAMBDA e : IsLog(e, "recovery", "Panic recovered")) = 1

\* C1, the pass-through side: the step in which RecoveryMiddleware returns for a
\* request that is not panicking leaves its error, response and records as the
\* inner stages left them.
C1_PassThrough ==
  \A r \in Reqs :
    (pc[r] = "recoveryExit" /\ ~Panicking(r) /\ pc'[r] # pc[r]) =>
      /\ err'[r] = err[r]
      /\ resp'[r] = resp[r]
      /\ events'[r] = events[r]

\* C1: RecoveryMiddleware turns every handler panic into a 500 JSON response
\* with a nil error and a live server, and passes every other result through
\* unchanged.
C1_RecoveryContainsPanics == [](C1_PanicContained) /\ [][C1_PassThrough]_vars

\* a panicking request was answered, and a request accepted after it was served
C1_Witness ==
  \E r, q \in Reqs :
    /\ PanicRoute(r) /\ Done(r)
    /\ req[q].afterPanic /\ Done(q) /\ ~PanicRoute(q)

\* what C2 asks of one finished request
LoggingExactlyOnce(r) ==
  /\ Count(r, LAMBDA e : IsLog(e, "logging", "Incoming request")) = 1
  /\ Count(r, LAMBDA e : IsLog(e, "logging", "Request completed")) = 1
  /\ Count(r, LAMBDA e : IsLog(e, "logging", "Request error")) =
       (IF HandlerFailed(r) THEN 1 ELSE 0)
  /\ Count(r, LAMBDA e : IsMetric(e, "http.requests_total")) = 1
  /\ Count(r, LAMBDA e : IsMetric(e, "http.request.duration_ms")) = 1

\* C2: every finished request, panicking or not, has exactly one "Incoming
\* request" log, one "Request completed" log, one "Request error" log iff an
\* error occurred, one http.requests_total increment and one duration observation.
C2_ExactlyOncePerRequest == \A r \in Reqs : Done(r) => LoggingExactlyOnce(r)

\* C3: with tracing enabled, TracingMiddleware starts at most one server span
\* for a request and ends it at most once, and a finished request has exactly
\* one server span, started once and ended once.
C3_OneSpanEndedOnce ==
  tracingEnabled =>
    \A r \in Reqs :
      /\ Count(r, LAMBDA e : IsServerSpanOp(e, "spanStart")) <= 1
      /\ Count(r, LAMBDA e : IsServerSpanOp(e, "spanEnd")) <= 1
      /\ pc[r] \in {"done", "errorHandler", "recoveryExit"} =>
           /\ Count(r, LAMBDA e : IsServerSpanOp(e, "spanStart")) = 1
           /\ Count(r, LAMBDA e : IsServerSpanOp(e, "spanEnd")) = 1
           /\ ctx[r] # 0
           /\ spans[ctx[r]].owner = r
           /\ spans[ctx[r]].starts = 1
           /\ spans[ctx[r]].ends = 1

\* with tracing enabled, a panicking, a failing and a succeeding request finished
C3_Witness ==
  /\ tracingEnabled
  /\ \E r, q \in Reqs :
       /\ PanicRoute(r) /\ Done(r)
       /\ HandlerFailed(q) /\ Done(q)

\* C4: every attribute, status or error write a stage makes on the request's
\* server span comes after that span's start and before its end.
C4_WritesWithinSpan ==
  \A r \in Reqs :
    \A i \in DOMAIN events[r] :
      IsServerSpanWrite(events[r][i]) =>
        /\ \E j \in 1..(i - 1) :
             events[r][j].op = "spanStart" /\ events[r][j].span = events[r][i].span
        /\ \A j \in 1..(i - 1) :
             ~(events[r][j].op = "spanEnd" /\ events[r][j].span = events[r][i].span)

\* with sampled tracing, a panicking request went through the recovery stage
\* and a failing request had its error written on its span
C4_Witness ==
  /\ tracingEnabled /\ sampleAll
  /\ \E r, q \in Reqs :
       /\ PanicRoute(r) /\ Done(r)
       /\ HandlerFailed(q) /\ Done(q)
       /\ \E i \in DOMAIN events[q] : IsServerSpanWrite(events[q][i])

\* C5: with tracing enabled and the trace sampled, a panicking request's server
\* span ends with status error, the panic's message recorded and the attributes
\* panic.error and panic.stack, and one error-level "Panic recovered" log.
C5_PanicMarksSpan ==
  (tracingEnabled /\ sampleAll) =>
    \A r \in Reqs :
      (PanicRoute(r) /\ Done(r)) =>
        /\ spans[ctx[r]].status = "error"
        /\ PanicMessage \in spans[ctx[r]].errors
        /\ <<"panic.error", PanicMessage>> \in spans[ctx[r]].attrs
        /\ <<"panic.stack", "">> \in spans[ctx[r]].attrs
        /\ Count(r, LAMBDA e : IsLog(e, "recovery", "Panic recovered") /\ e.val = "error") = 1

\* the calls GetUser makes on its own span and on the cache
IsCacheHitAttr(e, val) == e.op = "setAttr" /\ e.key = "cache.hit" /\ e.val = val
IsCacheSet(e) == e.op = "cacheSet"

\* the response the store lookup alone determines
StoreResponse(r) ==
  IF local[r].dbResult = "found"
  THEN [status |-> 200, body |-> UserBody(local[r].user)]
  ELSE [status |-> 404, body |-> ErrorBody("User not found")]

\* C6: a GetUser whose cache lookup returned a value that deserializes sets
\* cache.hit=true, answers 200 with the cached user, and makes no store query
\* and no cache write.
C6_HitServedFromCache ==
  \A r \in Reqs :
    local[r].cacheResult = "hit" =>
      /\ Count(r, LAMBDA e : IsCacheHitAttr(e, "true")) = 1
      /\ Count(r, LAMBDA e : IsCacheHitAttr(e, "false")) = 0
      /\ Unmarshal(local[r].val).ok
      /\ resp[r] = [status |-> 200, body |-> UserBody(Unmarshal(local[r].val).user)]
      /\ err[r] = NoErr
      /\ pc[r] \notin {"storeQuery", "cacheSet"}
      /\ local[r].dbResult = "none"
      /\ local[r].setResult = "none"
      /\ Count(r, IsCacheSet) = 0

\* a request was answered from the cache
C6_Witness == \E r \in Reqs : local[r].cacheResult = "hit" /\ Done(r)

\* C7: a GetUser whose cache lookup failed (lookup error or a value that does
\* not deserialize) sets cache.hit=false and goes on to the store lookup, and
\* its response, like that of a miss, is the one the store lookup determines.
C7_CacheFailureIsMiss ==
  \A r \in Reqs :
    /\ local[r].cacheResult \in {"error", "corrupt"} =>
         /\ Count(r, LAMBDA e : IsCacheHitAttr(e, "false")) = 1
         /\ Count(r, LAMBDA e : IsCacheHitAttr(e, "true")) = 0
         /\ pc[r] = "storeQuery" \/ local[r].dbResult # "none"
    /\ (local[r].cacheResult \in {"miss", "error", "corrupt"} /\ Done(r)) =>
         resp[r] = StoreResponse(r)

\* a lookup error and an undeserializable value were both absorbed, one ending
\* in 200 and one in 404 or both alike
C7_Witness ==
  \E r, q \in Reqs :
    /\ local[r].cacheResult = "corrupt" /\ Done(r)
    /\ local[q].cacheResult = "error" /\ Done(q)

\* C8 as stated: for a user in the store and reads of its id that do not
\* overlap (and whose store queries all succeed), the store is queried once,
\* and again only after the cache entry expired.
C8_QueriedOncePerTtl ==
  \A id \in UserIds :
    (/\ store[id] # NoUser
     /\ ~overlap[id]
     /\ \A r \in Reqs : local[r].dbResult # "error") =>
      storeQueries[id] <= 1 + evictions[id]

\* C8 amended: for a user in the store and reads of its id that do not overlap,
\* the store is queried at most once, plus once per expiry of the cache entry,
\* plus once per cache or store failure (a failed or undeserializable cache
\* read, a failed cache write, a failed query).
C8_QueriedOncePerTtlOrFault ==
  \A id \in UserIds :
    (store[id] # NoUser /\ ~overlap[id]) =>
      storeQueries[id] <= 1 + evictions[id] + faults[id]

\* two reads of an existing user, one after the other, without any failure:
\* the second was a hit and the store was queried once
C8_Witness ==
  \E id \in UserIds :
    /\ store[id] # NoUser /\ ~overlap[id]
    /\ storeQueries[id] = 1 /\ faults[id] = 0
    /\ \E r, q \in Reqs :
         /\ r # q /\ Done(r) /\ Done(q)
         /\ req[r].route = "getUser" /\ req[r].id = id
         /\ req[q].route = "getUser" /\ req[q].id = id
         /\ local[q].cacheResult = "hit"

\* C9, the response side: a GetUser that missed the cache and found no row
\* returns the NotFound error, answers 404 through the ErrorHandler, and makes
\* no cache write.
C9_NotFound ==
  \A r \in Reqs :
    (local[r].cacheResult = "miss" /\ local[r].dbResult = "norows") =>
      /\ local[r].setResult = "none"
      /\ Count(r, IsCacheSet) = 0
      /\ pc[r] # "cacheSet"
      /\ pc[r] \in {"loggingExit", "tracingExit", "recoveryExit", "errorHandler"} =>
           err[r] = NewError(404, "User not found")
      /\ Done(r) =>
           /\ resp[r] = [status |-> 404, body |-> ErrorBody("User not found")]
           /\ errorHandlerRuns[r] = 1

\* C9, the frame side: no step of a request that found no row changes the cache.
C9_CacheUnchanged ==
  \A r \in Reqs :
    (pc'[r] # pc[r] /\ local'[r].dbResult = "norows") => cache' = cache

\* C9: a cache miss followed by an absent row gives HTTP 404 and leaves the
\* cache as it was.
C9_NotFoundNoCacheWrite == [](C9_NotFound) /\ [][C9_CacheUnchanged]_vars

\* a read of an id without a row missed the cache and was answered
C9_Witness ==
  \E r \in Reqs :
    local[r].cacheResult = "miss" /\ local[r].dbResult = "norows" /\ Done(r)

\* C10, the response side: a GetUser that did not hit the cache and found the
\* row made one cache write with a ttl of 10 minutes and answers 200 with the
\* row, whether that write succeeded or failed.
C10_Found ==
  \A r \in Reqs :
    (local[r].cacheResult # "hit" /\ local[r].dbResult = "found" /\ Done(r)) =>
      /\ local[r].setResult \in {"ok", "failed"}
      /\ Count(r, LAMBDA e : IsCacheSet(e) /\ e.num = 10) = 1
      /\ Count(r, IsCacheSet) = 1
      /\ resp[r] = [status |-> 200, body |-> UserBody(local[r].user)]
      /\ err[r] = NoErr
      /\ errorHandlerRuns[r] = 0

\* C10, the write: the row GetUser holds is the one the store returned; the
\* cache write stores its serialization under user:<id> with ttl 10 when it
\* succeeds and changes nothing when it fails.
C10_Hydrate ==
  \A r \in Reqs :
    /\ (pc[r] = "storeQuery" /\ pc'[r] = "cacheSet") =>
         local'[r].user = store[req[r].id]
    /\ (pc[r] = "cacheSet" /\ pc'[r] # pc[r]) =>
         /\ local'[r].setResult = "ok" =>
              cache' = [cache EXCEPT ![CacheKey(req[r].id)] =
                          [val |-> Marshal(local[r].user), ttl |-> 10]]
         /\ local'[r].setResult = "failed" => cache' = cache
         /\ resp'[r] = [status |-> 200, body |-> UserBody(local[r].user)]

\* C10: after a miss and a found row GetUser writes the serialized user to the
\* cache with a ttl of 10 minutes and answers 200 with the user, also when the
\* cache write fails.
C10_HydrateAndRespond == [](C10_Found) /\ [][C10_Hydrate]_vars

\* one read hydrated the cache and one read's cache write failed; both answered
C10_Witness ==
  \E r, q \in Reqs :
    /\ local[r].dbResult = "found" /\ local[r].setResult = "ok" /\ Done(r)
    /\ local[q].dbResult = "found" /\ local[q].setResult = "failed" /\ Done(q)


\* a finished read of a user created before the read was accepted
ReadAfterCreate(r) == req[r].route = "getUser" /\ req[r].afterCreate /\ Done(r)

\* the read answers 200 with the name and email the creation was called with,
\* the id it returned, and a created_at that is set
ReturnsCreated(r) ==
  /\ resp[r].status = 200
  /\ resp[r].body.kind = "json" /\ resp[r].body.error = ""
  /\ resp[r].body.user.id = req[r].id
  /\ resp[r].body.user.created_at # 0
  /\ \E c \in CrudReqs :
       /\ req[c].route = "createUser" /\ Done(c)
       /\ resp[c].status = 201
       /\ resp[c].body.user.id = req[r].id
       /\ resp[r].body.user.name = req[c].name
       /\ resp[r].body.user.email = req[c].email
       /\ resp[r].body.user.created_at = resp[c].body.user.created_at

\* the first read after the creation missed the cache and hydrated it
FirstReadHydrates(r) ==
  /\ local[r].cacheResult # "hit"
  /\ Count(r, LAMBDA e : IsCacheHitAttr(e, "false")) = 1
  /\ local[r].dbResult = "found"
  /\ local[r].setResult = "ok"

\* the second read was answered from the cache, with what the first returned
SecondReadHits(r) ==
  /\ local[r].cacheResult = "hit"
  /\ Count(r, LAMBDA e : IsCacheHitAttr(e, "true")) = 1
  /\ local[r].dbResult = "none"
  /\ \A q \in CrudReqs : (req[q].firstRead /\ Done(q)) => resp[r] = resp[q]

\* no store query of a read failed
QueriesSucceeded == \A q \in CrudReqs : local[q].dbResult # "error"

Has(step, whats) == \E i \in DOMAIN steps : steps[i].step = step /\ steps[i].what \in whats

InitSteps == {InitOrder[i] : i \in DOMAIN InitOrder}
Triggered == Has("trigger", {"signal", "cancelled"})

\* the init steps main has completed, in the order it completed them
InitsDone == SelectSeq(steps, LAMBDA e : e.step \in InitSteps /\ e.what \in {"ok", "skipped"})

\* C12: startup runs logger, tracer (skipped when tracing is disabled), metrics
\* with the runtime-metric registration, store pool, cache client, migration in
\* this order, each after the previous one succeeded; a failure of a step or of
\* a part of it ends the process with a non-zero status; the server listens
\* only after every step, and every part of it, succeeded.
C12_StartupAllOrNothing ==
  /\ \A i \in DOMAIN InitsDone :
       /\ InitsDone[i].step = InitOrder[i]
       /\ InitsDone[i].what = "skipped" <=> (InitOrder[i] = "tracer" /\ ~tracingEnabled)
  /\ (\E x \in InitSteps \cup {"runtime"} : Has(x, {"error"})) =>
       /\ mainPc = "exited"
       /\ exitCode \in {1, 2}
       /\ ~listening
       /\ ~Has("listen", {"ok", "error"})
  /\ (listening \/ Has("listen", {"ok", "error"})) =>
       /\ Len(InitsDone) = Len(InitOrder)
       /\ ~Has("runtime", {"error"})

\* the order in which teardown stops the subsystems
TeardownOrder ==
  <<"app.Shutdown", "database.CloseRedis", "database.Close", "metrics.Shutdown",
    "tracer.Shutdown", "logger.Shutdown">>

IsBegin(e) == e.step \in Closers /\ e.what \in {"begin", "skipped"}
IsReturn(e) == e.step \in Closers /\ e.what \in {"ok", "error", "timeout", "skipped"}
Begun == SelectSeq(steps, IsBegin)

\* C13: after the trigger the teardown calls start in the order server, cache
\* client, store pool, metrics provider, trace provider, log provider, none
\* before the trigger and none before the call before it has returned.
C13_TeardownInReverseOrder ==
  /\ Len(Begun) <= Len(TeardownOrder)
  /\ \A i \in DOMAIN Begun : Begun[i].step = TeardownOrder[i]
  /\ \A j \in DOMAIN steps :
       IsBegin(steps[j]) =>
         /\ \E t \in 1..(j - 1) : steps[t].step = "trigger"
         /\ \A i \in 1..(j - 1) :
              IsBegin(steps[i]) =>
                \E k \in i..(j - 1) : steps[k].step = steps[i].step /\ IsReturn(steps[k])

\* with tracing enabled the process exited after a teardown in which all six
\* subsystems were stopped
C13_Witness ==
  /\ tracingEnabled /\ exitCode = 0
  /\ \A i \in DOMAIN TeardownOrder : Has(TeardownOrder[i], {"begin"})

\* C14: a teardown call that returns an error is logged and main goes on: once
\* the process has exited after a trigger every teardown call was attempted,
\* and after every failed call main is in or past the next one.
C14_TeardownIsBestEffort ==
  /\ \A i \in DOMAIN steps :
       (steps[i].step \in Closers /\ steps[i].what \in {"error", "timeout"}) =>
         /\ i < Len(steps)
         /\ steps[i + 1] = StepEv(steps[i].step, "logged")
         /\ mainPc = "exited" => exitCode = 0
  /\ (Triggered /\ mainPc = "exited") =>
       /\ exitCode = 0
       /\ \A i \in DOMAIN TeardownOrder : Has(TeardownOrder[i], {"begin", "skipped"})

\* the server shutdown and the cache close failed, and the pool, the metrics,
\* the tracer and the logger were stopped all the same
C14_Witness ==
  /\ exitCode = 0
  /\ Has("app.Shutdown", {"error", "timeout"})
  /\ Has("database.CloseRedis", {"error"})
  /\ Has("database.Close", {"ok"})
  /\ Has("metrics.Shutdown", {"ok", "error"})
  /\ Has("logger.Shutdown", {"ok", "error", "timeout"})

\* C15: every teardown call is bounded by a timeout: while main is in one, the
\* call can return or its deadline can pass, so that main always gets on
\* towards the exit, also when the call hangs.
C15_NoStepBlocksExit ==
  (Running /\ mainPc \in Closers) => ENABLED (CallReturns \/ DeadlineExpires)

\* C16: no request task runs unless every subsystem handle it may use is
\* initialised and not being shut down; no request is in flight while the
\* cache client or the store pool is being closed or is closed.
C16_HandlesLive ==
  \A r \in LifeReqs :
    (Running /\ InFlight(r)) =>
      \A h \in Subsystems : handle[h] \in {"up", "off"}


\* C17: the status code LoggingMiddleware reports is the response status when
\* no error occurred or the response status is not 200; with an error and a
\* status of 200 it is the error's code for a fiber error and 500 otherwise.
C17_EffectiveStatus ==
  fnResult # 0 =>
    /\ (~fnArg.e.isErr \/ fnArg.status # 200) => fnResult = fnArg.status
    /\ (fnArg.e.isErr /\ fnArg.status = 200 /\ fnArg.e.fiber) => fnResult = fnArg.e.code
    /\ (fnArg.e.isErr /\ fnArg.status = 200 /\ ~fnArg.e.fiber) => fnResult = 500

\* the status was computed for an error that declares no code on a response
\* whose status was still 200
C17_Witness ==
  fnResult = 500 /\ fnArg.e.isErr /\ ~fnArg.e.fiber /\ fnArg.status = 200

IsErrorLog(e) == e.op = "log" /\ e.val = "error"

\* C18: a finished request whose handler returned an error that reached the
\* ErrorHandler has exactly one error-level log entry, over all stages.
C18_OneErrorLog ==
  \A r \in Reqs :
    (Done(r) /\ HandlerFailed(r) /\ errorHandlerRuns[r] = 1) => Count(r, IsErrorLog) = 1

\* C19: a finished request whose handler returned an error is answered with
\* the JSON object {"error": <the error's message>} and the error's code (500
\* for an error that is no fiber error); a panicking one with
\* {"error": "Internal Server Error"} and 500; and no response with a status
\* of 400 or more has any other shape.
C19_ErrorResponseShape ==
  \A r \in Reqs :
    Done(r) =>
      /\ HandlerFailed(r) =>
           /\ resp[r].status = (IF err[r].fiber THEN err[r].code ELSE 500)
           /\ resp[r].body = [kind |-> "json", error |-> err[r].msg, user |-> NoUser]
           /\ err[r].msg # ""
      /\ PanicRoute(r) =>
           resp[r] = [status |-> 500,
                      body |-> [kind |-> "json", error |-> "Internal Server Error",
                                user |-> NoUser]]
      /\ resp[r].status >= 400 =>
           /\ resp[r].body.kind = "json"
           /\ resp[r].body.error # ""
           /\ resp[r].body.user = NoUser

\* a failing request and a panicking request were answered
C19_Witness ==
  \E r, q \in Reqs :
    /\ Done(r) /\ HandlerFailed(r) /\ resp[r].status = 400
    /\ Done(q) /\ PanicRoute(q)

\* C20: a GetUser whose store query failed for a reason other than the row
\* being absent answers 500 with a generic message, and a 404 is returned only
\* when the row is missing.
C20_DependencyFailureIs500 ==
  \A r \in Reqs :
    (Done(r) /\ req[r].route = "getUser") =>
      /\ local[r].dbResult = "error" =>
           /\ resp[r].status = 500
           /\ resp[r].body.kind = "json" /\ resp[r].body.error # ""
      /\ resp[r].status = 404 => local[r].dbResult = "norows"


\* the request is a POST /api/users whose body does not parse or lacks a field
ClientInputError(r) ==
  /\ req[r].route = "createUser"
  /\ \/ [name |-> req[r].name, email |-> req[r].email] = Malformed
     \/ req[r].name = ""
     \/ req[r].email = ""

IsInsert(e) == e.op = "spanStart" /\ e.key = "db.create-user"

\* C21: a finished CreateUser request with a malformed body or an empty name or
\* email was answered with 400, made no INSERT, and left no error-level log
\* entry in any stage.
C21_ClientErrorIsQuiet ==
  \A r \in CrudReqs :
    (Done(r) /\ ClientInputError(r)) =>
      /\ resp[r].status = StatusBadRequest
      /\ Count(r, IsInsert) = 0
      /\ Count(r, IsErrorLog) = 0

\* what the client and the log and metric backends see of a request: the
\* response, and the log entries and metric recordings without their trace ids
IsRecord(e) == e.op \in {"log", "metric"}
Erase(evs) == [i \in DOMAIN evs |-> [evs[i] EXCEPT !.span = 0]]
Observable(r) == [resp |-> resp[r], records |-> Erase(SelectSeq(events[r], IsRecord))]

\* the two requests asked for the same thing and their dependencies answered alike
SameInputs(r, q) ==
  /\ req[r].route = req[q].route
  /\ req[r].id = req[q].id
  /\ local[r] = local[q]

\* the request has no server span: none in its context, no call of the tracing
\* stage, and no call that names a span
Untraced(r) ==
  /\ ctx[r] = 0
  /\ \A i \in DOMAIN events[r] : events[r][i].stage # "tracing" /\ events[r][i].span = 0

C22_NoSpanWhenDisabled ==
  /\ serverAlive
  /\ \A r \in Reqs :
       /\ pc[r] # "crashed"
       /\ (InFlight(r) /\ ~tracingEnabled) => (Untraced(r) /\ pc[r] \notin {"tracing", "tracingExit"})
       /\ \A q \in Reqs :
            (Done(r) /\ Done(q) /\ SameInputs(r, q)) => Observable(r) = Observable(q)

C22_NoSpanStep == ~tracingEnabled => (spans' = spans /\ nextSpan' = nextSpan)

PastTracing(r) == ctx[r] # 0 /\ pc[r] \in {"recoveryExit", "errorHandler", "done"}

IsTracingCall(e, op) == e.stage = "tracing" /\ e.op = op

\* C23: every request that entered the tracing stage and left it again, however
\* its inner stages ended, has had http.status_code set on its server span and
\* the trace context injected by that stage, and the error recorded and the span
\* status set to error when the handler failed.
C23_TracingAlwaysRecords ==
  \A r \in Reqs :
    PastTracing(r) =>
      /\ Count(r, LAMBDA e : IsTracingCall(e, "setAttr") /\ e.key = "http.status_code") = 1
      /\ Count(r, LAMBDA e : IsTracingCall(e, "inject")) = 1
      /\ HandlerFailed(r) =>
           /\ Count(r, LAMBDA e : IsTracingCall(e, "recordError")) = 1
           /\ Count(r, LAMBDA e : IsTracingCall(e, "setStatus") /\ e.key = "error") = 1

\* the positions among the request's recorded calls that satisfy Test
Idx(r, Test(_)) == {i \in DOMAIN events[r] : Test(events[r][i])}

IsIncoming(e) == IsLog(e, "logging", "Incoming request")
\* what LoggingMiddleware records after c.Next()
IsAfterNext(e) == e.stage = "logging" /\ ~IsIncoming(e)
IsHandlerCall(e) == e.stage = "handler"
\* what the stages around LoggingMiddleware record once it has returned
IsEnclosingReturn(e) ==
  \/ e.stage \in {"recovery", "errorHandler"}
  \/ e.stage = "tracing" /\ e.op # "spanStart"

HandlerRunning(r) == pc[r] \in {"handler", "storeQuery", "cacheSet"}
LoggingReturned(r) == pc[r] \in {"tracingExit", "recoveryExit", "errorHandler", "done"}

\* C24: within one request the "Incoming request" log comes before anything the
\* handler does; nothing else is recorded by the logging stage while the
\* handler runs; and once the stage has returned after a handler that returned,
\* the counter increment, the duration and size recordings and the "Request
\* completed" log are there, each once, after the handler's last call and
\* before anything the enclosing stages do on the way back.
C24_LoggingOrder ==
  \A r \in Reqs :
    LET incoming == Idx(r, IsIncoming)
        handler == Idx(r, IsHandlerCall)
        after == Idx(r, IsAfterNext)
        outer == Idx(r, IsEnclosingReturn)
    IN /\ (HandlerRunning(r) \/ pc[r] = "loggingExit") =>
            (Cardinality(incoming) = 1 /\ after = {} /\ outer = {})
       /\ \A i \in incoming, j \in handler \cup after : i < j
       /\ \A i \in handler, j \in after : i < j
       /\ \A i \in after, j \in outer : i < j
       /\ (LoggingReturned(r) /\ ~PanicRoute(r)) =>
            /\ Count(r, LAMBDA e : IsMetric(e, "http.requests_total")) = 1
            /\ Count(r, LAMBDA e : IsMetric(e, "http.request.duration_ms")) = 1
            /\ Count(r, LAMBDA e : IsMetric(e, "http.request.size_bytes")) = 1
            /\ Count(r, LAMBDA e : IsMetric(e, "http.response.size_bytes")) = 1
            /\ Count(r, LAMBDA e : IsLog(e, "logging", "Request completed")) = 1

\* a traced read that found no user is finished: the handler, the logging stage,
\* the tracing stage and the ErrorHandler all left records
C24_Witness ==
  \E r \in Reqs :
    /\ Done(r) /\ req[r].route = "getUser" /\ HandlerFailed(r) /\ ctx[r] # 0
    /\ Idx(r, IsHandlerCall) # {} /\ Idx(r, IsAfterNext) # {}
    /\ Idx(r, IsEnclosingReturn) # {}

\* the server span as tracer.Start left it
StartedSpan(s) ==
  [NewSpan EXCEPT !.owner = spans[s].owner, !.sampled = spans[s].sampled, !.starts = 1,
                  !.attrs = IF spans[s].sampled THEN BaselineAttrs ELSE {}]

\* the calls the request made that name the span
CallsOn(r, s) == SelectSeq(events[r], LAMBDA e : e.span = s)

\* C25: under every interleaving of the requests, the span in a request's
\* context is the one the tracing stage started for it; every log entry and
\* span call of the request that names a span names that one; and every span is
\* exactly what its own request's calls made of it, so no call of another
\* request reached it.
C25_SpanPerRequest ==
  /\ \A r \in Reqs :
       /\ ctx[r] # 0 =>
            /\ spans[ctx[r]].owner = r
            /\ Count(r, LAMBDA e : e.op = "spanStart" /\ e.stage = "tracing"
                                    /\ e.span = ctx[r]) = 1
       /\ \A i \in DOMAIN events[r] :
            events[r][i].span # 0 => events[r][i].span = ctx[r]
  /\ \A s \in SpanIds :
       spans[s].owner # 0 =>
         /\ ctx[spans[s].owner] = s
         /\ spans[s] = ApplyAll(StartedSpan(s), CallsOn(spans[s].owner, s))

\* a failed request finished with its span marked and ended while a request
\* that had started its span earlier was still being served
C25_Witness ==
  \E r, q \in Reqs :
    /\ r # q
    /\ HandlerFailed(r) /\ Done(r) /\ ctx[r] # 0
    /\ spans[ctx[r]].status = "error" /\ spans[ctx[r]].ends = 1
    /\ InFlight(q) /\ ctx[q] # 0 /\ ctx[q] < ctx[r]

\* the request's check of the dependency came back with the result
Pinged(r, dep, result) ==
  \E i \in DOMAIN events[r] :
    events[r][i].op = "ping" /\ events[r][i].key = dep /\ events[r][i].val = result

\* C26: a finished health request made each dependency check once, reports
\* "up" for a dependency exactly when its check succeeded and "down" otherwise,
\* and answers 200 with status "healthy" exactly when both are up and 503 with
\* status "unhealthy" in every other case.
C26_HealthReport ==
  \A r \in Reqs :
    (Done(r) /\ req[r].route = "health") =>
      LET bothUp == Pinged(r, "database", "ok") /\ Pinged(r, "redis", "ok")
      IN /\ Count(r, LAMBDA e : e.op = "ping" /\ e.key = "database") = 1
         /\ Count(r, LAMBDA e : e.op = "ping" /\ e.key = "redis") = 1
         /\ resp[r].body.database = (IF Pinged(r, "database", "ok") THEN "up" ELSE "down")
         /\ resp[r].body.redis = (IF Pinged(r, "redis", "ok") THEN "up" ELSE "down")
         /\ bothUp <=> (resp[r].status = 200 /\ resp[r].body.status = "healthy")
         /\ ~bothUp <=> (resp[r].status = 503 /\ resp[r].body.status = "unhealthy")
         /\ err[r] = NoErr /\ errorHandlerRuns[r] = 0

\* one probe found both dependencies up, another found Redis down
C26_Witness ==
  \E r, q \in Reqs :
    /\ Done(r) /\ resp[r].status = 200 /\ resp[r].body.kind = "health"
    /\ Done(q) /\ resp[q].status = 503 /\ resp[q].body.kind = "health"
    /\ Pinged(q, "database", "ok") /\ Pinged(q, "redis", "error")

\* C27: for every limit and page the client sends as numbers, ListUsers queries
\* the store with limit 100 when the limit is above 100 and with the limit
\* itself otherwise, with page 1 when the page is below 1 and with the page
\* itself otherwise, and with the offset (page-1)*limit of the two.
C27_PaginationClamped ==
  fnResult.applied =>
    /\ fnArg.limit.kind = "num" =>
         fnResult.limit = (IF fnArg.limit.n > 100 THEN 100 ELSE fnArg.limit.n)
    /\ fnArg.page.kind = "num" =>
         fnResult.page = (IF fnArg.page.n < 1 THEN 1 ELSE fnArg.page.n)
    /\ fnResult.offset = (fnResult.page - 1) * fnResult.limit

\* a request with a limit above 100 and a page below 1 was parsed
C27_Witness ==
  /\ fnResult.applied
  /\ fnArg.limit.kind = "num" /\ fnArg.limit.n > 100
  /\ fnArg.page.kind = "num" /\ fnArg.page.n < 1
  /\ fnResult.limit = 100 /\ fnResult.page = 1

\* C28: with tracing enabled, every log entry written on behalf of a request
\* that has its server span carries the ids of that span.
C28_LogsCarryTraceIds ==
  tracingEnabled =>
    \A r \in Reqs :
      ctx[r] # 0 =>
        \A i \in DOMAIN events[r] :
          events[r][i].op = "log" => events[r][i].span = ctx[r]

\* the handler wrote a log entry after its call of Set
LoggedAfterSet(r) ==
  \E i, j \in DOMAIN events[r] :
    /\ i < j
    /\ IsCacheSet(events[r][i])
    /\ events[r][j].op = "log" /\ events[r][j].stage = "handler"

\* C29: a finished GetUser request whose cache lookup failed with a retrieval
\* error or whose cached value did not deserialize has a warning in its log,
\* and one whose cache write failed has a log entry written after the write.
C29_CacheFailuresLogged ==
  \A r \in Reqs :
    (Done(r) /\ req[r].route = "getUser") =>
      /\ local[r].cacheResult \in {"error", "corrupt"} =>
           Count(r, LAMBDA e : e.op = "log" /\ e.stage = "handler" /\ e.val = "warn") >= 1
      /\ local[r].setResult = "failed" => LoggedAfterSet(r)

\* C30: for every finished request on which LoggingMiddleware recorded, the
\* http.status_code on the request counter, on the duration histogram and in
\* the "Request completed" log is the status code of the response the client
\* gets, also when the ErrorHandler set that status after the stage returned.
C30_RecordedStatusIsFinal ==
  \A r \in Reqs :
    Done(r) =>
      \A i \in DOMAIN events[r] :
        LET e == events[r][i]
        IN (\/ IsMetric(e, "http.requests_total")
            \/ IsMetric(e, "http.request.duration_ms")
            \/ IsLog(e, "logging", "Request completed")) => e.num = resp[r].status

\* a request whose handler returned a 404 error was recorded by the logging
\* stage and then answered by the ErrorHandler
C30_Witness ==
  \E r \in Reqs :
    /\ Done(r) /\ errorHandlerRuns[r] = 1 /\ resp[r].status = 404
    /\ Count(r, LAMBDA e : IsMetric(e, "http.requests_total") /\ e.num = 404) = 1

\* the cache holds a user under the id's key
CachedUser(id) ==
  cache[CacheKey(id)] # NoEntry /\ Unmarshal(cache[CacheKey(id)].val).ok

\* C31: in every state, a user cached under user:<id> is a row of the store
\* with that id and the same name and email; and a GetUser accepted after a
\* DeleteUser of its id succeeded is answered 404.
C31_CacheCoherent ==
  /\ \A id \in UserIds :
       CachedUser(id) =>
         LET u == Unmarshal(cache[CacheKey(id)].val).user
         IN /\ store[id] # NoUser
            /\ store[id].id = u.id /\ store[id].name = u.name /\ store[id].email = u.email
  /\ \A r \in CrudReqs :
       (Done(r) /\ req[r].route = "getUser" /\ req[r].afterDelete) =>
         resp[r].status = StatusNotFound

\* the two requests are finished reads of the id, which is in the store; they
\* were in flight together, no entry of the id has expired, and no store query
\* of theirs failed
ConcurrentReads(r, q, id) ==
  /\ r # q /\ Done(r) /\ Done(q)
  /\ req[r].route = "getUser" /\ req[q].route = "getUser"
  /\ req[r].id = id /\ req[q].id = id
  /\ store[id] # NoUser
  /\ overlap[id] /\ evictions[id] = 0
  /\ local[r].dbResult # "error" /\ local[q].dbResult # "error"

SameAnswer(r, q, id) ==
  /\ resp[r] = [status |-> StatusOK, body |-> UserBody(store[id])]
  /\ resp[q] = resp[r]

CacheHolds(id) ==
  cache[CacheKey(id)].ttl > 0 /\ cache[CacheKey(id)].val = Marshal(store[id])

\* C32 as stated: concurrent reads of an existing id that was not cached both
\* answer 200 with the same user, and when they are finished the cache holds
\* exactly that user under the id's key, whatever the interleaving.
C32_ConcurrentReadsConverge ==
  \A id \in UserIds : \A r, q \in Reqs :
    ConcurrentReads(r, q, id) => (SameAnswer(r, q, id) /\ CacheHolds(id))

\* C32 amended: concurrent reads of an existing id that was not cached both
\* answer 200 with the same user whatever the interleaving; when they are
\* finished the cache holds exactly that user if one of their cache writes
\* succeeded, and holds what it held before if none did.
C32_ConcurrentReadsConvergeIfWritten ==
  \A id \in UserIds : \A r, q \in Reqs :
    ConcurrentReads(r, q, id) =>
      /\ SameAnswer(r, q, id)
      /\ (local[r].setResult = "ok" \/ local[q].setResult = "ok") => CacheHolds(id)
      /\ (local[r].setResult # "ok" /\ local[q].setResult # "ok") =>
           cache[CacheKey(id)] \in {NoEntry, ForeignEntry}

\* two reads in flight together both missed, both queried the store and both
\* wrote the cache
C32_Witness ==
  \E id \in UserIds : \E r, q \in Reqs :
    /\ ConcurrentReads(r, q, id)
    /\ local[r].cacheResult = "miss" /\ local[q].cacheResult = "miss"
    /\ local[r].setResult = "ok" /\ local[q].setResult = "ok"
    /\ storeQueries[id] = 2
    /\ CacheHolds(id)

\* a startup step after the logger's failed and the process has exited
StartupFailed ==
  /\ mainPc = "exited"
  /\ \E x \in InitSteps \ {"logger"} : Has(x, {"error"})

\* C33: when the process has exited on a failed startup step, no subsystem
\* that had been initialized is still up, and logger.Shutdown, which flushes
\* the buffered log records with the fatal line among them, has returned.
C33_FailedStartupCleansUp ==
  StartupFailed =>
    /\ \A h \in Subsystems : handle[h] # "up"
    /\ Has("logger.Shutdown", {"ok", "error", "timeout"})

\* C34: for every limit and page query value, absent, non-numeric, zero and
\* negative ones included, the limit ListUsers passes to the store query is
\* between 1 and 100 and the offset is not negative.
C34_PaginationInRange ==
  fnResult.applied =>
    /\ fnResult.limit >= 1 /\ fnResult.limit <= 100
    /\ fnResult.offset >= 0

=============================================================================
